---- MODULE Spec2Model ----
(***************************************************************************)
(* Quizzy backend: the AI quiz-generation pipeline of                      *)
(* backend/app/services/ai.py (provider call, tolerant JSON extraction,    *)
(* question/answer repair, placeholder fill), the routes of                *)
(* backend/app/routes that store its results, and the edit history of      *)
(* quizzes, questions and projects with its revert routes.                 *)
(*                                                                         *)
(* Specifications:                                                         *)
(*   SpecNormalize  AIService._validate_question applied to one payload    *)
(*   SpecParse      AIService._extract_and_parse_json applied to one text  *)
(*   Spec           POST /quizzes/generate and /quizzes/{id}/regenerate:   *)
(*                  AIService.generate_quiz driven by the replies of the   *)
(*                  generation provider, and what the route stores         *)
(*   SpecChangeType AIService.change_question_type applied to one question *)
(*   SpecHistory    requests of two users to the quiz, question, project   *)
(*                  and history routes                                     *)
(*   SpecActivity   HistoryService.get_activity_log on drawn history       *)
(***************************************************************************)
EXTENDS Integers, Sequences, FiniteSets, TLC

VARIABLES
    vq_question,    \* _validate_question: the raw payload it was given
    vq_position,    \* _validate_question: the position it was given
    vq_result,      \* _validate_question: what the call produced
    pj_response,    \* _extract_and_parse_json: the text it was given
    pj_result,      \* _extract_and_parse_json: what the call produced
    pc,             \* the request: "idle", "attempt1", "attempt2", "done"
    route,          \* the route handling it: "generate" or "regenerate"
    num_questions,  \* the num_questions handed to AIService.generate_quiz
    replies,        \* what the provider did at each invocation, in order
    questions_data, \* generate_quiz: the value parsed from the last response
    gq_result,      \* what AIService.generate_quiz handed to the route
    http_status,    \* the route's answer: "", "200", "500"
    db_quizzes,     \* ids of the rows of table quizzes
    db_questions,   \* rows of table questions, each with its answers
    db_quiz_history, \* rows of table quiz_history
    ct_question_data, \* change_question_type: the question it was given
    ct_new_type,    \* change_question_type: the requested type
    ct_reply,       \* change_question_type: what the provider did
    ct_result,      \* change_question_type: what the call produced
    db,             \* the committed rows of every table of the history routes
    request,        \* the last request served and the status it was answered with
    before,         \* the rows as they were when the last request arrived
    deleted,        \* the entities removed by a delete request so far
    served,         \* the number of requests served
    al_history,     \* the rows of quiz_history, question_history, project_history
    al_user,        \* get_activity_log: the user who asked
    al_skip,        \* get_activity_log: the skip it was given
    al_limit,       \* get_activity_log: the limit it was given, 0 before the call
    al_result       \* get_activity_log: the entries it returned

vars == << vq_question, vq_position, vq_result, pj_response, pj_result,
           pc, route, num_questions, replies, questions_data, gq_result,
           http_status, db_quizzes, db_questions, db_quiz_history,
           ct_question_data, ct_new_type, ct_reply, ct_result,
           db, request, before, deleted, served,
           al_history, al_user, al_skip, al_limit, al_result >>

normalize_vars == << vq_question, vq_position, vq_result >>
parse_vars == << pj_response, pj_result >>
generate_vars == << pc, route, num_questions, replies, questions_data, gq_result,
                    http_status, db_quizzes, db_questions, db_quiz_history >>
change_vars == << ct_question_data, ct_new_type, ct_reply, ct_result >>
history_vars == << db, request, before, deleted, served >>
activity_vars == << al_history, al_user, al_skip, al_limit, al_result >>

----------------------------------------------------------------------------
(* Bounds of the model *)

\* longest answers list of a raw question
MaxAnswers == 5
\* largest position handed to the normalizer
MaxPosition == 1
\* longest response text, in tokens
MaxTokens == 3
\* largest num_questions of a /generate request, and most questions of the
\* quiz that exists at the start
MaxCount == 2
\* most requests served by the history routes
MaxRequests == 3
\* most snapshots in the three history tables together
MaxEntries == 4
\* largest skip and largest limit of a GET /history/activity-log
MaxSkip == 3
MaxLimit == 2

----------------------------------------------------------------------------
(* JSON payloads as json.loads produces them.                              *)
(*                                                                         *)
(* A Python dict is a record with a `keys` field naming the keys that are  *)
(* present; the value fields of absent keys hold a fixed filler that no    *)
(* definition reads.  A value that is not a dict has isdict = FALSE and    *)
(* carries only its str() form.                                            *)

\* a JSON string, null or number found where a string is expected
StrVal(s) == [t |-> "str", s |-> s]
NullVal == [t |-> "null", s |-> ""]
NumVal == [t |-> "number", s |-> ""]

\* the value of an "answers" key: a list, or something else
ListVal(items) == [t |-> "list", items |-> items]
NotAList(t) == [t |-> t, items |-> << >>]

AnswerKeys == {"answer_text", "is_correct", "position"}

RawAnswerDict(keys, text, correct, position) ==
    [ isdict |-> TRUE, keys |-> keys, repr |-> "",
      answer_text |-> text, is_correct |-> correct, position |-> position ]

RawAnswerOther(repr) ==
    [ isdict |-> FALSE, keys |-> {}, repr |-> repr,
      answer_text |-> "", is_correct |-> FALSE, position |-> 0 ]

\* The answer entries the provider may send: a full answer marked correct,
\* an empty object, a bare string.
RawAnswers ==
    { RawAnswerDict(AnswerKeys, "True", TRUE, 0),
      RawAnswerDict({}, "", FALSE, 0),
      RawAnswerOther("Oslo") }

RECURSIVE SeqsUpTo(_, _)
\* all sequences over S of length 0..n
SeqsUpTo(S, n) ==
    IF n = 0 THEN { << >> }
    ELSE LET shorter == SeqsUpTo(S, n - 1)
         IN  shorter \cup { Append(s, x) : s \in { t \in shorter : Len(t) = n - 1 }, x \in S }

QuestionKeys == {"question_text", "explanation", "position", "question_type", "answers"}

RawQuestionDict(keys, text, explanation, position, qtype, answers) ==
    [ isdict |-> TRUE, keys |-> keys,
      question_text |-> text, explanation |-> explanation, position |-> position,
      question_type |-> qtype, answers |-> answers ]

\* a list entry that is not an object (a string, a number, null)
RawQuestionOther ==
    [ isdict |-> FALSE, keys |-> {},
      question_text |-> "", explanation |-> "", position |-> 0,
      question_type |-> NullVal, answers |-> NotAList("null") ]

\* the value stored under a key, or the filler when the key is absent
Filled(keys, key, value, filler) == IF key \in keys THEN value ELSE filler

\* The question_type values the provider may send.
RawQuestionTypes ==
    { StrVal("boolean"), StrVal("Boolean"), StrVal("multiple_choice"),
      StrVal("open_ended"), NullVal, NumVal }

\* The position a provider entry carries when it carries one.
ProviderPositions == {7}

\* The payloads handed to the normalizer: every combination of present keys,
\* question_type values and answers values, and a non-object.
RawQuestions ==
    { RawQuestionOther } \cup
    { RawQuestionDict(
          keys,
          Filled(keys, "question_text", "Capital of France?", ""),
          Filled(keys, "explanation", "It is Paris.", ""),
          Filled(keys, "position", position, 0),
          Filled(keys, "question_type", qtype, NullVal),
          Filled(keys, "answers", answers, NotAList("null")))
      : keys \in SUBSET QuestionKeys,
        position \in ProviderPositions,
        qtype \in RawQuestionTypes,
        answers \in { NotAList("null"), NotAList("number") }
                    \cup { ListVal(items) : items \in SeqsUpTo(RawAnswers, MaxAnswers) } }

----------------------------------------------------------------------------
(* Question/answer normalizer: AIService._validate_question and helpers *)

\* what a call produced: a returned value, or the exception it raised
Returned(value) == [raised |-> "", value |-> value]
Raised(exception, filler) == [raised |-> exception, value |-> filler]

Answer(text, correct, position) ==
    [answer_text |-> text, is_correct |-> correct, position |-> position]

\* str.lower() on the strings of the model
Lower(s) ==
    CASE s = "Boolean" -> "boolean"
      [] s = "BOOLEAN" -> "boolean"
      [] s = "Multiple_Choice" -> "multiple_choice"
      [] s = "MULTIPLE_CHOICE" -> "multiple_choice"
      [] s = "OPEN_ENDED" -> "open_ended"
      [] OTHER -> s

_generate_default_answers(question_type) ==
    IF question_type = "boolean"
    THEN << Answer("True", TRUE, 0), Answer("False", FALSE, 1) >>
    ELSE << Answer("Option A", TRUE, 0), Answer("Option B", FALSE, 1),
            Answer("Option C", FALSE, 2), Answer("Option D", FALSE, 3) >>

\* _generate_placeholder_question numbering its position from 1
PlaceholderOneBased(position) ==
    [ question_text |-> "Default Question " \o ToString(position + 1),
      question_type |-> "multiple_choice",
      explanation |-> "A placeholder question generated due to AI generation failure.",
      position |-> position + 1,
      answers |-> _generate_default_answers("multiple_choice") ]

_generate_placeholder_question(position) ==
    [ question_text |-> "Default Question " \o ToString(position + 1),
      question_type |-> "multiple_choice",
      explanation |-> "A placeholder question generated due to AI generation failure.",
      position |-> position,
      answers |-> _generate_default_answers("multiple_choice") ]

\* lines 506-513: one answer entry at index i of the list (0-based)
ValidatedAnswer(answer, i) ==
    IF ~answer.isdict
    THEN Answer(answer.repr, FALSE, i)
    ELSE Answer(
           IF "answer_text" \in answer.keys THEN answer.answer_text
           ELSE "Option " \o ToString(i + 1),
           IF "is_correct" \in answer.keys THEN answer.is_correct ELSE FALSE,
           IF "position" \in answer.keys THEN answer.position ELSE i)

\* lines 515-518: mark the first answer when none is marked
EnsureCorrect(answers) ==
    IF (\E i \in 1..Len(answers) : answers[i].is_correct) \/ answers = << >>
    THEN answers
    ELSE [answers EXCEPT ![1].is_correct = TRUE]

\* BooleanAnswers without the trailing pop loop of lines 529-530
BooleanAnswersNoPop(answers) ==
    LET cut == SubSeq(answers, 1, IF Len(answers) < 2 THEN Len(answers) ELSE 2)
    IN  IF Len(cut) < 2
        THEN cut \o << Answer("True", FALSE, Len(cut)),
                       Answer("False", FALSE, Len(cut) + 1) >>
        ELSE cut

\* lines 521-530: a boolean question keeps two answers
BooleanAnswers(answers) ==
    LET cut == SubSeq(answers, 1, IF Len(answers) < 2 THEN Len(answers) ELSE 2)
        padded == IF Len(cut) < 2
                  THEN cut \o << Answer("True", FALSE, Len(cut)),
                                 Answer("False", FALSE, Len(cut) + 1) >>
                  ELSE cut
    IN  SubSeq(padded, 1, 2)

RECURSIVE PadOptions(_)
\* lines 534-539: append "Option n" until there are four answers
PadOptions(answers) ==
    IF Len(answers) < 4
    THEN PadOptions(Append(answers,
             Answer("Option " \o ToString(Len(answers) + 1), FALSE, Len(answers))))
    ELSE answers

\* lines 533-540
MultipleChoiceAnswers(answers) == SubSeq(PadOptions(answers), 1, 4)

\* lines 499-542: the answers of the returned question
ValidatedAnswers(question, question_type) ==
    IF "answers" \notin question.keys \/ question.answers.t # "list"
    THEN _generate_default_answers(question_type)
    ELSE LET items == question.answers.items
             validated_answers ==
                 EnsureCorrect([i \in 1..Len(items) |-> ValidatedAnswer(items[i], i - 1)])
         IN  IF question_type = "boolean" THEN BooleanAnswers(validated_answers)
             ELSE MultipleChoiceAnswers(validated_answers)

_validate_question(question, position) ==
    IF ~question.isdict
    THEN Returned(_generate_placeholder_question(position))
    ELSE LET got == IF "question_type" \in question.keys
                    THEN question.question_type
                    ELSE StrVal("multiple_choice")
         IN  IF got.t # "str"
             \* None.lower(), (5).lower(): AttributeError
             THEN Raised("AttributeError", _generate_placeholder_question(position))
             ELSE LET lowered == Lower(got.s)
                      question_type ==
                          IF lowered \notin {"boolean", "multiple_choice"}
                          THEN "multiple_choice" ELSE lowered
                  IN  Returned(
                        [ question_text |->
                              IF "question_text" \in question.keys
                              THEN question.question_text
                              ELSE "Question " \o ToString(position + 1),
                          question_type |-> question_type,
                          explanation |->
                              IF "explanation" \in question.keys
                              THEN question.explanation ELSE "",
                          position |->
                              IF "position" \in question.keys
                              THEN question.position ELSE position,
                          answers |-> ValidatedAnswers(question, question_type) ])

----------------------------------------------------------------------------
(* Response text.                                                          *)
(*                                                                         *)
(* A response is a sequence of tokens.  A "json" token is the compact text *)
(* of one JSON document (json.dumps with no spaces after "[" and before    *)
(* "]"), whose entries are flat: an object with no nested list, or a       *)
(* scalar.  A token with rawnl is such a text with a raw line break inside *)
(* one of its string literals, which json.loads rejects.  A "deep" token   *)
(* is the text of an array nested deeper than the interpreter's recursion  *)
(* limit: json.loads raises RecursionError on it, which is no              *)
(* JSONDecodeError.  "prose" holds no bracket, brace, backtick or line     *)
(* break; "fence" is a triple backtick with its optional json tag; "nl" is *)
(* a line break.  Neighbouring tokens are separated by a blank.            *)

DictVal(d) == [t |-> "dict", items |-> << d >>]
ScalarVal == NotAList("scalar")

Prose == [k |-> "prose", v |-> ScalarVal, rawnl |-> FALSE]
Newline == [k |-> "nl", v |-> ScalarVal, rawnl |-> FALSE]
Fence == [k |-> "fence", v |-> ScalarVal, rawnl |-> FALSE]
Deep == [k |-> "deep", v |-> ScalarVal, rawnl |-> FALSE]
Json(v) == [k |-> "json", v |-> v, rawnl |-> FALSE]
JsonBrokenLine(v) == [k |-> "json", v |-> v, rawnl |-> TRUE]

\* json.loads(text): the decoded value, JSONDecodeError, or RecursionError
json_loads(text) ==
    LET lead == { i \in 1..Len(text) : \A j \in 1..i : text[j].k = "nl" }
        body == SubSeq(text, Cardinality(lead) + 1, Len(text))
    IN  IF body = << >> THEN Raised("JSONDecodeError", ListVal(<< >>))
        ELSE IF body[1].k = "deep" THEN Raised("RecursionError", ListVal(<< >>))
        ELSE IF body[1].k # "json" \/ body[1].rawnl
             THEN Raised("JSONDecodeError", ListVal(<< >>))
        ELSE IF \A i \in 2..Len(body) : body[i].k = "nl"
             THEN Returned(body[1].v)
             \* Extra data
             ELSE Raised("JSONDecodeError", ListVal(<< >>))

RECURSIVE CodeBlocks(_)
\* re.findall(r"```(?:json)?\s*([\s\S]*?)```", response): the text between
\* the 1st and 2nd fence, the 3rd and 4th, ...
CodeBlocks(text) ==
    LET fences == { i \in 1..Len(text) : text[i].k = "fence" }
    IN  IF Cardinality(fences) < 2 THEN << >>
        ELSE LET open == CHOOSE i \in fences : \A j \in fences : i <= j
                 close == CHOOSE i \in fences \ {open} :
                              \A j \in fences \ {open} : i <= j
             IN  << SubSeq(text, open + 1, close - 1) >>
                 \o CodeBlocks(SubSeq(text, close + 1, Len(text)))

\* the text of the token starts with "[{"
OpensArrayOfObjects(tok) ==
    /\ tok.k = "json" /\ tok.v.t = "list"
    /\ tok.v.items # << >> /\ tok.v.items[1].isdict

\* the text of the token ends with "}]"
ClosesArrayOfObjects(tok) ==
    /\ tok.k = "json" /\ tok.v.t = "list"
    /\ tok.v.items # << >> /\ tok.v.items[Len(tok.v.items)].isdict

\* the text of the token starts with "[" and ends with "]"
IsArrayText(tok) == tok.k = "deep" \/ (tok.k = "json" /\ tok.v.t = "list")

\* the text of the token starts with "{" and ends with "}"
IsObjectText(tok) == tok.k = "json" /\ tok.v.t = "dict"

\* the text of the token holds a "}"
HoldsBrace(tok) ==
    \/ IsObjectText(tok)
    \/ /\ tok.k = "json" /\ tok.v.t = "list"
       /\ \E i \in 1..Len(tok.v.items) : tok.v.items[i].isdict

Last(S) == CHOOSE i \in S : \A j \in S : j <= i

RECURSIVE BracketMatches(_)
\* re.findall(r'\[{[\s\S]*}\]|\[[\s\S]*\]|{[\s\S]*}', response): leftmost
\* match first, the alternatives tried in order, each running to the last
\* occurrence of its closing text.  A match of the third alternative that
\* ends inside a later array token is given with that token whole: it holds
\* an object followed by more text either way.
BracketMatches(text) ==
    LET starts == { i \in 1..Len(text) : IsArrayText(text[i]) \/ IsObjectText(text[i]) }
    IN  IF starts = {} THEN << >>
        ELSE LET i == CHOOSE s \in starts : \A o \in starts : s <= o
                 after == i..Len(text)
                 first == { j \in after : ClosesArrayOfObjects(text[j]) }
                 second == { j \in after : IsArrayText(text[j]) }
                 third == { j \in after : HoldsBrace(text[j]) }
                 j == IF OpensArrayOfObjects(text[i]) /\ first # {} THEN Last(first)
                      ELSE IF IsArrayText(text[i]) THEN Last(second)
                      ELSE Last(third)
             IN  << SubSeq(text, i, j) >>
                 \o BracketMatches(SubSeq(text, j + 1, Len(text)))

RECURSIVE FirstDecoded(_)
\* for match in matches: try: return json.loads(match)
\*                       except json.JSONDecodeError: continue
\* "exhausted" when the loop ends without returning
FirstDecoded(matches) ==
    IF matches = << >> THEN Raised("exhausted", ListVal(<< >>))
    ELSE LET got == json_loads(Head(matches))
         IN  IF got.raised = "JSONDecodeError" THEN FirstDecoded(Tail(matches))
             ELSE got

\* response.strip().replace('\n', '').replace('\r', '')
Cleaned(text) ==
    LET kept == { i \in 1..Len(text) : text[i].k # "nl" }
        RECURSIVE Pick(_)
        Pick(n) == IF n > Len(text) THEN << >>
                   ELSE IF n \in kept
                        THEN << [text[n] EXCEPT !.rawnl = FALSE] >> \o Pick(n + 1)
                        ELSE Pick(n + 1)
    IN  Pick(1)

\* lines 444-451: the last method catches every Exception
Method4(response) ==
    LET got == json_loads(Cleaned(response))
    IN  IF got.raised = "" THEN got ELSE Returned(ListVal(<< >>))

\* lines 434-442, then method 4
Method3(response) ==
    LET got == FirstDecoded(BracketMatches(response))
    IN  IF got.raised = "exhausted" THEN Method4(response) ELSE got

\* lines 424-432, then method 3
Method2(response) ==
    LET got == FirstDecoded(CodeBlocks(response))
    IN  IF got.raised = "exhausted" THEN Method3(response) ELSE got

_extract_and_parse_json(response) ==
    IF response = << >> THEN Returned(ListVal(<< >>))
    ELSE LET got == json_loads(response)
         IN  IF got.raised = "JSONDecodeError" THEN Method2(response) ELSE got

----------------------------------------------------------------------------
(* Quiz generation: AIService.generate_quiz and the routes that call it *)

\* lines 399-408: the provider's text, or "" when the call raised
_generate_content(reply) == IF reply.failed THEN << >> ELSE reply.text

\* line 159: not questions_data or not isinstance(questions_data, list)
ExtractionFailed(data) == data.t # "list" \/ data.items = << >>

RECURSIVE AppendPlaceholders(_, _)
\* lines 476-479
AppendPlaceholders(valid_questions, expected_count) ==
    IF Len(valid_questions) < expected_count
    THEN AppendPlaceholders(
             Append(valid_questions, _generate_placeholder_question(Len(valid_questions))),
             expected_count)
    ELSE valid_questions

_validate_and_fix_questions(data, expected_count) ==
    LET listed == IF data.t \in {"list", "dict"} THEN data.items ELSE << >>
        kept == SubSeq(listed, 1,
                       IF Len(listed) > expected_count THEN expected_count ELSE Len(listed))
        fixed == [i \in 1..Len(kept) |-> _validate_question(kept[i], i - 1)]
    IN  IF \E i \in 1..Len(kept) : fixed[i].raised # ""
        THEN LET i == CHOOSE i \in 1..Len(kept) :
                          /\ fixed[i].raised # ""
                          /\ \A j \in 1..(i - 1) : fixed[j].raised = ""
             IN  Raised(fixed[i].raised, << >>)
        \* every returned question is a non-empty dict, so each is appended
        ELSE Returned(AppendPlaceholders([i \in 1..Len(kept) |-> fixed[i].value],
                                         expected_count))

\* ValidatedOrEmpty returning [] when nothing was extracted, with no
\* placeholder fill
EmptyWhenNothingExtracted(data, expected_count) ==
    LET validated == _validate_and_fix_questions(data, expected_count)
    IN  IF validated.raised # "" \/ data.items = << >> THEN << >> ELSE validated.value

\* lines 177-192: from the parsed value to the list generate_quiz returns;
\* any exception ends in the except clause, which returns []
ValidatedOrEmpty(data, expected_count) ==
    LET validated == _validate_and_fix_questions(data, expected_count)
    IN  IF validated.raised # "" THEN << >> ELSE validated.value

\* str.upper() on the question types
Upper(s) ==
    CASE s = "boolean" -> "BOOLEAN"
      [] s = "multiple_choice" -> "MULTIPLE_CHOICE"
      [] OTHER -> s

\* the id the database gives the next row of `rows`
NextId(rows) ==
    IF rows = << >> THEN 1
    ELSE 1 + (CHOOSE m \in { rows[i].id : i \in 1..Len(rows) } :
                  \A i \in 1..Len(rows) : rows[i].id <= m)

RECURSIVE CreateQuestions(_, _, _)
\* quizzes.py lines 80-102 and 300-322: one Question row per returned question
CreateQuestions(rows, quiz_id, questions) ==
    IF questions = << >> THEN rows
    ELSE LET q_data == Head(questions)
         IN  CreateQuestions(
                 Append(rows,
                        [ id |-> NextId(rows), quiz_id |-> quiz_id,
                          question_text |-> q_data.question_text,
                          question_type |-> Upper(q_data.question_type),
                          explanation |-> q_data.explanation,
                          position |-> q_data.position,
                          answers |-> q_data.answers ]),
                 quiz_id, Tail(questions))

\* the rows left when those of quiz `quiz_id` are deleted
DeleteQuestionsOf(rows, quiz_id) ==
    LET Other(r) == r.quiz_id # quiz_id
    IN  SelectSeq(rows, Other)

\* quiz.questions
QuestionsOf(rows, quiz_id) ==
    LET Mine(r) == r.quiz_id = quiz_id
    IN  SelectSeq(rows, Mine)

\* history.py lines 274-285
record_quiz_action(history, quiz_id, action, previous_state) ==
    Append(history, [quiz_id |-> quiz_id, action |-> action,
                     previous_state |-> previous_state])

\* a previous_state column: NULL, or the questions a REGENERATE replaced
NoState == [present |-> FALSE, questions |-> << >>]
QuestionsState(questions) == [present |-> TRUE, questions |-> questions]

\* the quiz that exists at the start, and the one /generate creates
ExistingQuiz == 1
OldQuestion(i) ==
    [ id |-> i, quiz_id |-> ExistingQuiz,
      question_text |-> "Old question " \o ToString(i),
      question_type |-> "BOOLEAN", explanation |-> "",
      position |-> i - 1,
      answers |-> _generate_default_answers("boolean") ]

\* The flat entries the provider may put in its array.
ResponseEntries ==
    { RawQuestionOther,
      RawQuestionDict({}, "", "", 0, NullVal, NotAList("null")),
      RawQuestionDict({"question_text", "question_type", "position"},
                      "Capital of France?", "", 7, StrVal("boolean"), NotAList("null")),
      RawQuestionDict({"question_text", "question_type"},
                      "Capital of France?", "", 0, NullVal, NotAList("null")) }

\* The texts the provider may reply with.
ResponseTexts ==
    { << >>, << Prose >>, << Deep >>, << Json(ScalarVal) >>,
      << Fence, Prose, Fence >> }
    \cup { << Json(DictVal(d)) >> : d \in { e \in ResponseEntries : e.isdict } }
    \cup { << Json(ListVal(entries)) >> : entries \in SeqsUpTo(ResponseEntries, MaxCount + 1) }
    \cup { << Prose, Newline, Fence, Json(ListVal(<< e >>)), Newline, Fence >> :
              e \in ResponseEntries }
    \cup { << Json(ListVal(<< e >>)), Prose, Json(ListVal(<< e >>)) >> :
              e \in ResponseEntries }

\* What the provider may do at one invocation: raise, or reply with a text.
ProviderReplies ==
    { [failed |-> TRUE, text |-> << >>] }
    \cup { [failed |-> FALSE, text |-> text] : text \in ResponseTexts }

----------------------------------------------------------------------------
(* Changing one question's type: AIService.change_question_type *)

\* the dict the route builds from the stored question (quizzes.py 600-605)
QuestionData(text, question_type, explanation, position) ==
    [ question_text |-> text, question_type |-> question_type,
      explanation |-> explanation, position |-> position ]

\* Fallback leaving the question's type as it was
FallbackKeepsType(question_data, new_type) ==
    [ question_text |-> question_data.question_text,
      question_type |-> question_data.question_type,
      explanation |-> question_data.explanation,
      position |-> question_data.position,
      answers |-> _generate_default_answers(new_type) ]

\* lines 386-389 and 394-397: the copy of question_data with the new type
\* and that type's default answers
Fallback(question_data, new_type) ==
    [ question_text |-> question_data.question_text,
      question_type |-> new_type,
      explanation |-> question_data.explanation,
      position |-> question_data.position,
      answers |-> _generate_default_answers(new_type) ]

\* lines 369-370: the first item of a non-empty list, else the value itself;
\* given as a raw question (a dict or not)
FirstItem(value) ==
    IF value.t \in {"list", "dict"} /\ value.items # << >>
    THEN value.items[1]
    ELSE RawQuestionOther

\* lines 375-380: position and type overwritten, the text kept when the
\* provider sent none
Overwritten(new_question_data, question_data, new_type) ==
    [ new_question_data EXCEPT
        !.keys = @ \cup {"position", "question_type", "question_text"},
        !.position = question_data.position,
        !.question_type = StrVal(new_type),
        !.question_text =
            IF "question_text" \notin new_question_data.keys \/ @ = ""
            THEN question_data.question_text ELSE @ ]

change_question_type(question_data, new_type, reply) ==
    IF new_type \notin {"boolean", "multiple_choice"}
    THEN Raised("ValueError", Fallback(question_data, new_type))
    ELSE LET parsed == _extract_and_parse_json(_generate_content(reply))
             new_question_data == FirstItem(parsed.value)
         IN  \* RecursionError out of the parser lands in the except clause
             IF parsed.raised # "" THEN Returned(Fallback(question_data, new_type))
             \* a falsy value goes to line 386; a truthy value that is no
             \* dict raises TypeError at line 375 and goes to line 394
             ELSE IF ~new_question_data.isdict \/ new_question_data.keys = {}
             THEN Returned(Fallback(question_data, new_type))
             ELSE LET validated ==
                          _validate_question(
                              Overwritten(new_question_data, question_data, new_type),
                              question_data.position)
                  IN  IF validated.raised # ""
                      THEN Returned(Fallback(question_data, new_type))
                      ELSE validated

\* The stored questions whose type is changed.
StoredQuestionTypes == {"boolean", "multiple_choice", "open_ended"}
QuestionsData ==
    { QuestionData("Is Paris in France?", question_type, explanation, position) :
          question_type \in StoredQuestionTypes,
          explanation \in {"", "It is Paris."},
          position \in {0, 3} }

----------------------------------------------------------------------------
(* The history routes: quizzes, questions and projects with their         *)
(* snapshots (routes/quizzes.py, services/question.py, routes/projects.py, *)
(* services/history.py).                                                   *)
(*                                                                         *)
(* A database `d` is one record: the sets of quiz and project rows, the    *)
(* question rows in id order, the set of project_quizzes rows, the three   *)
(* history tables in timestamp order, and the last id each table's         *)
(* sequence gave out (ids are never given twice).  `title` stands for the  *)
(* columns title, topic and description, which every route reads and       *)
(* writes together; `custom_prompt` for use_default_prompt and             *)
(* custom_prompt; a question's explanation goes with its question_text.    *)
(* The ids a snapshot stores with its questions and answers are never read *)
(* back and are left out.  Quiz and project rows carry their user_id.     *)

\* previous_state of a quiz_history row: None, or a dict with `keys`
QuizNull ==
    [present |-> FALSE, keys |-> {}, title |-> "", custom_prompt |-> "",
     questions |-> << >>]
QuizState(keys, title, custom_prompt, questions) ==
    [present |-> TRUE, keys |-> keys,
     title |-> Filled(keys, "title", title, ""),
     custom_prompt |-> Filled(keys, "custom_prompt", custom_prompt, ""),
     questions |-> Filled(keys, "questions", questions, << >>)]

\* previous_state of a project_history row
ProjectNull ==
    [present |-> FALSE, keys |-> {}, title |-> "", custom_prompt |-> "",
     quizzes |-> {}]
ProjectState(keys, title, custom_prompt, quizzes) ==
    [present |-> TRUE, keys |-> keys,
     title |-> Filled(keys, "title", title, ""),
     custom_prompt |-> Filled(keys, "custom_prompt", custom_prompt, ""),
     quizzes |-> Filled(keys, "quizzes", quizzes, {})]

\* what a snapshot keeps of one question: its columns and its answers
QuestionState(question) ==
    [present |-> TRUE, question_text |-> question.question_text,
     question_type |-> question.question_type, position |-> question.position,
     answers |-> question.answers]
QuestionNull ==
    [present |-> FALSE, question_text |-> "", question_type |-> "boolean",
     position |-> 0, answers |-> << >>]

\* the row of `rows` with this id
Row(rows, id) == CHOOSE r \in rows : r.id = id
Exists(rows, id) == \E r \in rows : r.id = id

\* the users that send requests
Users == {1, 2}

\* OwnedBy without the filter on user_id
OwnedByAnyone(rows, user_id) == rows

\* .filter(Quiz.user_id == current_user.id), .filter(Project.user_id == ...)
OwnedBy(rows, user_id) == { r \in rows : r.user_id = user_id }

\* the question row with this id that belongs to this quiz, if any
QuestionRows(d, quiz_id, question_id) ==
    LET Wanted(r) == r.id = question_id /\ r.quiz_id = quiz_id
    IN  SelectSeq(d.questions, Wanted)

\* project.quizzes as the snapshots store it
ProjectQuizzes(d, project_id) ==
    { [quiz_id |-> pq.quiz_id, position |-> pq.position] :
          pq \in { r \in d.project_quizzes : r.project_id = project_id } }

\* db.add of a history row (history.py lines 274-280, 299-305, 324-330;
\* question.py lines 60-66, 139-145, 184-190, 269-275)
AddSnapshot(d, table, owner, action, previous_state) ==
    [d EXCEPT ![table] = Append(@, [id |-> d.ids[table] + 1, owner |-> owner,
                                    action |-> action,
                                    previous_state |-> previous_state]),
              !.ids[table] = @ + 1]

\* the answer a route gives: its status and the database after each commit
\* it made that stored something, in order
Answered(status, commits) == [status |-> status, commits |-> commits]
NotFound == Answered("404", << >>)

\* `if history_id:` on the optional history_id of a revert request, which
\* is {} for None and {n} for the id n
Truthy(history_id) == history_id # {} /\ history_id # {0}

\* the snapshot a revert request names: with an id, the row with that id
\* of this entity; without, the entity's latest row with a previous_state
\* (quizzes.py lines 717-734, question.py lines 217-232, projects.py
\* lines 399-417); << >> when there is none
RevertTarget(history, owner, history_id) ==
    LET Named(h) == h.owner = owner /\ h.id \in history_id
                    /\ h.previous_state.present
        Usable(h) == h.owner = owner /\ h.previous_state.present
        found == IF Truthy(history_id) THEN SelectSeq(history, Named)
                 ELSE SelectSeq(history, Usable)
    IN  IF found = << >> THEN << >> ELSE << found[Len(found)] >>

\* the Question row the routes build from one question of a list
\* (quizzes.py lines 81-87, 301-307, 753-759), before its answers exist
BareQuestion(id, quiz_id, q_data) ==
    [id |-> id, quiz_id |-> quiz_id, question_text |-> q_data.question_text,
     question_type |-> Lower(Upper(q_data.question_type)),
     position |-> q_data.position, answers |-> << >>]

RECURSIVE QuestionCommits(_, _, _)
\* quizzes.py lines 80-102, 300-322, 752-774: each question is added and
\* committed, then its answers are added to the session, which the next
\* commit stores.  The result lists, per question, the database as that
\* commit left it and the session after the answers were added.
QuestionCommits(d, quiz_id, questions) ==
    IF questions = << >> THEN << >>
    ELSE LET q_data == Head(questions)
             id == d.ids.questions + 1
             bare == BareQuestion(id, quiz_id, q_data)
             committed == [d EXCEPT !.questions = Append(@, bare),
                                    !.ids.questions = id]
             session == [d EXCEPT
                            !.questions =
                                Append(@, [bare EXCEPT !.answers = q_data.answers]),
                            !.ids.questions = id]
         IN  << [committed |-> committed, session |-> session] >>
             \o QuestionCommits(session, quiz_id, Tail(questions))

Committed(steps) == [i \in 1..Len(steps) |-> steps[i].committed]
Session(d, steps) == IF steps = << >> THEN d ELSE steps[Len(steps)].session

\* DeleteQuizQuestions without the db.delete loop: the questions stay
KeepQuizQuestions(d, quiz_id) == d

\* db.delete of every question of a quiz; the cascade of
\* models/question.py line 30 takes the questions' snapshots with them
DeleteQuizQuestions(d, quiz_id) ==
    LET gone == { d.questions[i].id :
                      i \in { j \in 1..Len(d.questions) :
                                  d.questions[j].quiz_id = quiz_id } }
        Kept(h) == h.owner \notin gone
    IN  [d EXCEPT !.questions = DeleteQuestionsOf(@, quiz_id),
                  !.question_history = SelectSeq(@, Kept)]

\* the questions of a quiz as a snapshot stores them (quizzes.py lines
\* 206-224, 254-272)
QuestionStates(d, quiz_id) ==
    LET rows == QuestionsOf(d.questions, quiz_id)
    IN  [i \in 1..Len(rows) |-> QuestionState(rows[i])]

\* WithFields without the `if key in history.previous_state` tests: every
\* column is assigned from the snapshot
WithFieldsUnconditionally(row, data) ==
    [row EXCEPT !.title = data.title, !.custom_prompt = data.custom_prompt]

\* the quiz or project row with the fields of `data` that are set
WithFields(row, data) ==
    [row EXCEPT !.title = IF "title" \in data.keys THEN data.title ELSE @,
                !.custom_prompt = IF "custom_prompt" \in data.keys
                                  THEN data.custom_prompt ELSE @]

\* db.delete(quiz) with the cascades of models/quiz.py lines 30-31 and
\* models/question.py line 30
DeleteQuizRow(d, quiz_id) ==
    LET Kept(h) == h.owner # quiz_id
        cleared == DeleteQuizQuestions(d, quiz_id)
    IN  [cleared EXCEPT !.quizzes = { q \in @ : q.id # quiz_id },
                        !.quiz_history = SelectSeq(@, Kept)]

\* the question row of `d` with this id replaced by `row`
ReplaceQuestion(d, row) ==
    [d EXCEPT !.questions = [i \in 1..Len(@) |->
                                 IF @[i].id = row.id THEN row ELSE @[i]]]

\* a deletion that removes the snapshots and leaves the question
DeleteQuestionRowKeepsQuestion(d, question_id) ==
    LET Kept(h) == h.owner # question_id
    IN  [d EXCEPT !.question_history = SelectSeq(@, Kept)]

\* db.delete(question) with the cascade of models/question.py line 30
DeleteQuestionRow(d, question_id) ==
    LET KeptRow(r) == r.id # question_id
        Kept(h) == h.owner # question_id
    IN  [d EXCEPT !.questions = SelectSeq(@, KeptRow),
                  !.question_history = SelectSeq(@, Kept)]

\* db.delete(project) after the bulk delete of its project_quizzes rows,
\* with the cascade of models/project.py line 27
DeleteProjectRow(d, project_id) ==
    LET Kept(h) == h.owner # project_id
    IN  [d EXCEPT !.projects = { p \in @ : p.id # project_id },
                  !.project_quizzes = { pq \in @ : pq.project_id # project_id },
                  !.project_history = SelectSeq(@, Kept)]

\* the project_quizzes rows of `d` with those of one project replaced
WithProjectQuizzes(d, project_id, quizzes) ==
    [d EXCEPT !.project_quizzes =
                  { pq \in @ : pq.project_id # project_id }
                  \cup { [project_id |-> project_id, quiz_id |-> q.quiz_id,
                          position |-> q.position] : q \in quizzes }]

\* the questions generate_quiz returns to the history routes
Generated(n) ==
    IF n = 1
    THEN [question_text |-> "Generated 1", question_type |-> "boolean",
          position |-> 0, answers |-> _generate_default_answers("boolean")]
    ELSE [question_text |-> "Generated 2", question_type |-> "multiple_choice",
          position |-> 1, answers |-> _generate_default_answers("multiple_choice")]

\* the database the history routes start from: quiz 1 with one question,
\* as /generate left it, in project 1, as create_project and
\* add_quiz_to_project left it
InitialDb ==
    [quizzes |-> {[id |-> 1, user_id |-> 1, title |-> "T0", custom_prompt |-> "P0"]},
     questions |-> << [id |-> 1, quiz_id |-> 1, question_text |-> "Q0",
                       question_type |-> "boolean", position |-> 0,
                       answers |-> _generate_default_answers("boolean")] >>,
     projects |-> {[id |-> 1, user_id |-> 1, title |-> "T0",
                    custom_prompt |-> "P0"]},
     project_quizzes |-> {[project_id |-> 1, quiz_id |-> 1, position |-> 0]},
     quiz_history |-> << [id |-> 1, owner |-> 1, action |-> "CREATE",
                          previous_state |-> QuizNull] >>,
     question_history |-> << >>,
     project_history |-> << [id |-> 1, owner |-> 1, action |-> "CREATE",
                             previous_state |-> ProjectNull],
                            [id |-> 2, owner |-> 1, action |-> "ADD_QUIZ",
                             previous_state |->
                                 ProjectState({"quizzes"}, "", "", {})] >>,
     ids |-> [quizzes |-> 1, questions |-> 1, projects |-> 1, quiz_history |-> 1,
              question_history |-> 0, project_history |-> 2]]

\* a request: the user get_current_user found for it, the route, the kind
\* and id of the entity it acts on, the quiz id of its path or body (0 when
\* it has none) and its history_id
Request(current_user, op, kind, id, quiz_id, history_id) ==
    [user |-> current_user, op |-> op, kind |-> kind, id |-> id,
     quiz_id |-> quiz_id, history_id |-> history_id, status |-> ""]

\* the quizzes, questions and projects of `d`, as kind and id
Entities(d) ==
    { << "quiz", q.id >> : q \in d.quizzes }
    \cup { << "question", d.questions[i].id >> : i \in 1..Len(d.questions) }
    \cup { << "project", p.id >> : p \in d.projects }

----------------------------------------------------------------------------
(* The activity log: HistoryService.get_user_history and get_activity_log  *)
(* (services/history.py).  A history row is its table, the user who made   *)
(* the change and its timestamp; no two rows have the same timestamp.      *)

EntityTypes == {"quiz", "question", "project"}

\* the three history tables with no row
NoHistory == [quiz_history |-> << >>, question_history |-> << >>,
              project_history |-> << >>]

\* the tables after the changes of `timeline`, the i-th made at time i by
\* user timeline[i][2] to an entity of type timeline[i][1]
HistoryAfter(timeline) ==
    LET stamped == [i \in 1..Len(timeline) |->
                       [entity_type |-> timeline[i][1], user_id |-> timeline[i][2],
                        timestamp |-> i]]
        Quiz(r) == r.entity_type = "quiz"
        Question(r) == r.entity_type = "question"
        Project(r) == r.entity_type = "project"
    IN  [quiz_history |-> SelectSeq(stamped, Quiz),
         question_history |-> SelectSeq(stamped, Question),
         project_history |-> SelectSeq(stamped, Project)]

RECURSIVE NewestFirst(_)
\* order_by(desc(timestamp)), and list.sort(key=timestamp, reverse=True)
NewestFirst(rows) ==
    IF rows = << >> THEN << >>
    ELSE LET i == CHOOSE i \in 1..Len(rows) :
                      \A j \in 1..Len(rows) : rows[j].timestamp <= rows[i].timestamp
         IN  << rows[i] >>
             \o NewestFirst(SubSeq(rows, 1, i - 1) \o SubSeq(rows, i + 1, Len(rows)))

\* seq[start:stop] of Python, for 0 <= start <= stop
Slice(seq, start, stop) ==
    IF start >= Len(seq) THEN << >>
    ELSE SubSeq(seq, start + 1, IF stop > Len(seq) THEN Len(seq) ELSE stop)

\* services/history.py lines 53-116 without filter_params: of each table,
\* the user's `limit` newest rows
get_user_history(tables, user_id, limit) ==
    LET Mine(r) == r.user_id = user_id
        Query(rows) == Slice(NewestFirst(SelectSeq(rows, Mine)), 0, limit)
    IN  [quiz_history |-> Query(tables.quiz_history),
         question_history |-> Query(tables.question_history),
         project_history |-> Query(tables.project_history)]

\* services/history.py lines 118-194: the summaries of the rows fetched
\* with limit * 3, sorted, then sliced
get_activity_log(tables, user_id, skip, limit) ==
    LET history == get_user_history(tables, user_id, limit * 3)
        Summaries(rows) ==
            [i \in 1..Len(rows) |->
                [entity_type |-> rows[i].entity_type, timestamp |-> rows[i].timestamp]]
        summary == Summaries(history.quiz_history)
                   \o Summaries(history.question_history)
                   \o Summaries(history.project_history)
    IN  Slice(NewestFirst(summary), skip, skip + limit)

----------------------------------------------------------------------------
(* Initial values *)

NoQuestion == RawQuestionOther
NoResult == Raised("not called", _generate_placeholder_question(0))
NoParse == Raised("not called", ListVal(<< >>))

IdleNormalize ==
    /\ vq_question = NoQuestion
    /\ vq_position = 0
    /\ vq_result = NoResult

IdleParse ==
    /\ pj_response = << >>
    /\ pj_result = NoParse

IdleChange ==
    /\ ct_question_data = QuestionData("", "boolean", "", 0)
    /\ ct_new_type = ""
    /\ ct_reply = [failed |-> TRUE, text |-> << >>]
    /\ ct_result = NoResult

\* no request served by the history routes
IdleHistory ==
    /\ db = InitialDb
    /\ request = Request(0, "", "", 0, 0, {})
    /\ before = InitialDb
    /\ deleted = {}
    /\ served = 0

\* get_activity_log was not called; the history tables are empty
IdleActivity ==
    /\ al_history = NoHistory
    /\ al_user = 0
    /\ al_skip = 0
    /\ al_limit = 0
    /\ al_result = << >>

\* no request yet; the database holds one quiz with `existing` questions
IdleGenerate(existing) ==
    /\ pc = "idle"
    /\ route = ""
    /\ num_questions = 0
    /\ replies = << >>
    /\ questions_data = ListVal(<< >>)
    /\ gq_result = << >>
    /\ http_status = ""
    /\ db_quizzes = {ExistingQuiz}
    /\ db_questions = [i \in 1..existing |-> OldQuestion(i)]
    /\ db_quiz_history = << [quiz_id |-> ExistingQuiz, action |-> "CREATE",
                             previous_state |-> NoState] >>

----------------------------------------------------------------------------
(* SpecNormalize: one call of _validate_question on a drawn payload *)

InitNormalize ==
    /\ IdleNormalize /\ IdleParse /\ IdleGenerate(0) /\ IdleChange /\ IdleHistory
    /\ IdleActivity

Normalize ==
    /\ vq_result = NoResult
    /\ \E question \in RawQuestions, position \in 0..MaxPosition :
          /\ vq_question' = question
          /\ vq_position' = position
          /\ vq_result' = _validate_question(question, position)
    /\ UNCHANGED << parse_vars, generate_vars, change_vars, history_vars, activity_vars >>

NextNormalize == Normalize

SpecNormalize == InitNormalize /\ [][NextNormalize]_vars

----------------------------------------------------------------------------
(* SpecParse: one call of _extract_and_parse_json on a drawn text *)

\* The entries of the arrays and the objects found in a drawn text.
TextObject == RawQuestionDict({"question_text"}, "Capital of France?", "", 0,
                              NullVal, NotAList("null"))

Tokens ==
    { Prose, Newline, Fence, Deep,
      Json(ScalarVal),
      Json(DictVal(TextObject)),
      Json(ListVal(<< TextObject >>)),
      Json(ListVal(<< RawQuestionOther >>)),
      JsonBrokenLine(ListVal(<< TextObject >>)) }

Texts == SeqsUpTo(Tokens, MaxTokens)

InitParse ==
    /\ IdleNormalize /\ IdleParse /\ IdleGenerate(0) /\ IdleChange /\ IdleHistory
    /\ IdleActivity

Parse ==
    /\ pj_result = NoParse
    /\ \E response \in Texts :
          /\ pj_response' = response
          /\ pj_result' = _extract_and_parse_json(response)
    /\ UNCHANGED << normalize_vars, generate_vars, change_vars, history_vars, activity_vars >>

NextParse == Parse

SpecParse == InitParse /\ [][NextParse]_vars

----------------------------------------------------------------------------
(* Spec: one request to POST /quizzes/generate or /quizzes/{id}/regenerate *)

\* quizzes.py line 274: len(quiz.questions) or 10
DefaultRegenerateCount == 10

Init ==
    /\ IdleNormalize
    /\ IdleParse
    /\ \E existing \in 0..MaxCount : IdleGenerate(existing)
    /\ IdleChange
    /\ IdleHistory
    /\ IdleActivity

\* quizzes.py lines 46-54 up to the first provider call of generate_quiz
GenerateRequest ==
    /\ pc = "idle"
    /\ \E n \in 1..MaxCount : num_questions' = n
    /\ route' = "generate"
    /\ pc' = "attempt1"
    /\ UNCHANGED << normalize_vars, parse_vars, change_vars, history_vars,
                    activity_vars, replies, questions_data, gq_result,
                    http_status, db_quizzes, db_questions, db_quiz_history >>

\* quizzes.py lines 248-287 up to the first provider call of generate_quiz
RegenerateRequest ==
    /\ pc = "idle"
    /\ ExistingQuiz \in db_quizzes
    /\ num_questions' =
          IF QuestionsOf(db_questions, ExistingQuiz) = << >>
          THEN DefaultRegenerateCount
          ELSE Len(QuestionsOf(db_questions, ExistingQuiz))
    /\ route' = "regenerate"
    /\ pc' = "attempt1"
    /\ UNCHANGED << normalize_vars, parse_vars, change_vars, history_vars,
                    activity_vars, replies, questions_data, gq_result,
                    http_status, db_quizzes, db_questions, db_quiz_history >>

\* RouteStores without the `if not questions_data` test of lines 56-60 and
\* 289-293: an empty result is stored like any other
RouteStoresEmptyResult(result) ==
    IF route = "generate"
    THEN LET quiz_id == 1 + Cardinality(db_quizzes)
         IN  /\ db_quizzes' = db_quizzes \cup {quiz_id}
             /\ db_questions' = CreateQuestions(db_questions, quiz_id, result)
             /\ db_quiz_history' =
                    record_quiz_action(db_quiz_history, quiz_id, "CREATE", NoState)
             /\ http_status' = "200"
    ELSE /\ db_questions' =
                CreateQuestions(DeleteQuestionsOf(db_questions, ExistingQuiz),
                                ExistingQuiz, result)
         /\ db_quiz_history' =
                record_quiz_action(db_quiz_history, ExistingQuiz, "REGENERATE",
                                   QuestionsState(QuestionsOf(db_questions, ExistingQuiz)))
         /\ http_status' = "200"
         /\ UNCHANGED db_quizzes

\* quizzes.py lines 56-115 (generate) and 289-336 (regenerate): what the
\* route does with the list generate_quiz returned
RouteStores(result) ==
    IF result = << >>
    THEN /\ http_status' = "500"
         /\ UNCHANGED << db_quizzes, db_questions, db_quiz_history >>
    ELSE IF route = "generate"
    THEN LET quiz_id == 1 + Cardinality(db_quizzes)
         IN  /\ db_quizzes' = db_quizzes \cup {quiz_id}
             /\ db_questions' = CreateQuestions(db_questions, quiz_id, result)
             /\ db_quiz_history' =
                    record_quiz_action(db_quiz_history, quiz_id, "CREATE", NoState)
             /\ http_status' = "200"
    ELSE /\ db_questions' =
                CreateQuestions(DeleteQuestionsOf(db_questions, ExistingQuiz),
                                ExistingQuiz, result)
         /\ db_quiz_history' =
                record_quiz_action(db_quiz_history, ExistingQuiz, "REGENERATE",
                                   QuestionsState(QuestionsOf(db_questions, ExistingQuiz)))
         /\ http_status' = "200"
         /\ UNCHANGED db_quizzes

\* generate_quiz returns `result` and the route runs to its end
Returns(result) ==
    /\ gq_result' = result
    /\ pc' = "done"
    /\ RouteStores(result)

\* ai.py lines 153-159, 177-192: the provider answers the first call
FirstResponse ==
    /\ pc = "attempt1"
    /\ \E reply \in ProviderReplies :
          LET parsed == _extract_and_parse_json(_generate_content(reply))
          IN  /\ replies' = Append(replies, reply)
              /\ IF parsed.raised # ""
                 THEN UNCHANGED questions_data /\ Returns(<< >>)
                 ELSE /\ questions_data' = parsed.value
                      /\ IF ExtractionFailed(parsed.value)
                         THEN /\ pc' = "attempt2"
                              /\ UNCHANGED << gq_result, http_status, db_quizzes,
                                              db_questions, db_quiz_history >>
                         ELSE Returns(ValidatedOrEmpty(parsed.value, num_questions))
    /\ UNCHANGED << normalize_vars, parse_vars, change_vars, history_vars, activity_vars, route,
                    num_questions >>

\* ai.py lines 174-192: the provider answers the call with the simplified prompt
RetryResponse ==
    /\ pc = "attempt2"
    /\ \E reply \in ProviderReplies :
          LET parsed == _extract_and_parse_json(_generate_content(reply))
          IN  /\ replies' = Append(replies, reply)
              /\ IF parsed.raised # ""
                 THEN UNCHANGED questions_data /\ Returns(<< >>)
                 ELSE /\ questions_data' = parsed.value
                      /\ Returns(ValidatedOrEmpty(parsed.value, num_questions))
    /\ UNCHANGED << normalize_vars, parse_vars, change_vars, history_vars, activity_vars, route,
                    num_questions >>

Next == GenerateRequest \/ RegenerateRequest \/ FirstResponse \/ RetryResponse

Spec == Init /\ [][Next]_vars

\* ai.py lines 311-328, AIService.regenerate_question: the first item of a
\* list, None (here << >>) for a falsy value or when anything raised, else
\* the value normalized by _validate_question.  A value that is neither a
\* list nor an object stands for a truthy one (a number, a string).
AIService_regenerate_question(reply, question_index) ==
    LET parsed == _extract_and_parse_json(_generate_content(reply))
        question_data == FirstItem(parsed.value)
        validated == _validate_question(question_data, question_index)
    IN  IF parsed.raised # "" THEN << >>
        ELSE IF parsed.value.t \in {"list", "dict"}
                /\ (parsed.value.items = << >>
                    \/ (question_data.isdict /\ question_data.keys = {}))
        THEN << >>
        ELSE IF validated.raised # "" THEN << >>
        ELSE << validated.value >>

----------------------------------------------------------------------------
(* SpecChangeType: one call of change_question_type by                     *)
(* POST /quizzes/{id}/questions/{id}/change-type                           *)

InitChangeType ==
    /\ IdleNormalize /\ IdleParse /\ IdleGenerate(0) /\ IdleChange /\ IdleHistory
    /\ IdleActivity

\* quizzes.py lines 580-658: the route returns early when the type is the
\* requested one, else calls change_question_type
ChangeType ==
    /\ ct_result = NoResult
    /\ \E question_data \in QuestionsData, new_type \in StoredQuestionTypes,
          reply \in ProviderReplies :
          /\ question_data.question_type # new_type
          /\ ct_question_data' = question_data
          /\ ct_new_type' = new_type
          /\ ct_reply' = reply
          /\ ct_result' = change_question_type(question_data, new_type, reply)
    /\ UNCHANGED << normalize_vars, parse_vars, generate_vars, history_vars,
                    activity_vars >>

NextChangeType == ChangeType

SpecChangeType == InitChangeType /\ [][NextChangeType]_vars

----------------------------------------------------------------------------
(* SpecHistory: requests to the routes that write, read and revert history *)

InitHistory ==
    /\ IdleNormalize /\ IdleParse /\ IdleGenerate(0) /\ IdleChange /\ IdleHistory
    /\ IdleActivity

\* the ids a client can name: those the tables have given out so far
Ids(table) == 1..db.ids[table]
\* no history_id, 0, or the id of a row of the table
HistoryIds(table) == {{}} \cup { {n} : n \in 0..db.ids[table] }

\* the fields a PUT sets: the title, or the custom prompt
Updates ==
    { [keys |-> {"title"}, title |-> "T1", custom_prompt |-> ""],
      [keys |-> {"custom_prompt"}, title |-> "", custom_prompt |-> "P1"] }

\* the lists generate_quiz returns: nothing, or two questions
GeneratedLists == { << >>, << Generated(1), Generated(2) >> }

\* the routes that delete an entity
DeleteOps == {"delete_quiz", "delete_question", "delete_project"}

\* One request is served.  The route runs to its end and the database is
\* what its last commit stored, or the request fails between two of its
\* commits (an exception, a lost connection) and the database is what the
\* commits before the failure stored; nothing is rolled back past a commit.
Serve(req, answer) ==
    /\ served < MaxRequests
    /\ served' = served + 1
    /\ \/ /\ db' = IF answer.commits = << >> THEN db
                   ELSE answer.commits[Len(answer.commits)]
          /\ request' = [req EXCEPT !.status = answer.status]
       \/ \E k \in 1..(Len(answer.commits) - 1) :
             /\ db' = answer.commits[k]
             /\ request' = [req EXCEPT !.status = "500"]
    /\ before' = db
    /\ deleted' = IF req.op \in DeleteOps /\ request'.status = "200"
                  THEN deleted \cup {<< req.kind, req.id >>}
                               \cup (Entities(db) \ Entities(db'))
                  ELSE deleted
    /\ UNCHANGED << normalize_vars, parse_vars, generate_vars, change_vars,
                    activity_vars >>

\* quizzes.py lines 37-115: POST /quizzes/generate with the list
\* generate_quiz returned; the quiz row is committed first, then each
\* question, then the answers of the last one, then the CREATE snapshot
generate ==
    /\ served < MaxRequests
    /\ \E current_user \in Users, generated \in GeneratedLists :
            LET quiz_id == db.ids.quizzes + 1
                created == [db EXCEPT
                               !.quizzes = @ \cup {[id |-> quiz_id,
                                                    user_id |-> current_user,
                                                    title |-> "T2",
                                                    custom_prompt |-> ""]},
                               !.ids.quizzes = quiz_id]
                steps == QuestionCommits(created, quiz_id, generated)
                recorded == AddSnapshot(Session(created, steps), "quiz_history",
                                        quiz_id, "CREATE", QuizNull)
            IN  Serve(Request(current_user, "generate", "quiz", quiz_id, 0, {}),
                      IF generated = << >> THEN Answered("500", << >>)
                      ELSE Answered("200",
                                    << created >> \o Committed(steps)
                                    \o << Session(created, steps), recorded >>))

\* quizzes.py lines 146-186
update_quiz ==
    \E current_user \in Users, quiz_id \in Ids("quizzes"), quiz_data \in Updates :
        Serve(Request(current_user, "update_quiz", "quiz", quiz_id, 0, {}),
              IF ~Exists(OwnedBy(db.quizzes, current_user), quiz_id) THEN NotFound
              ELSE LET quiz == Row(db.quizzes, quiz_id)
                       previous_state ==
                           QuizState({"title", "custom_prompt"}, quiz.title,
                                     quiz.custom_prompt, << >>)
                       updated == [db EXCEPT
                                      !.quizzes = (@ \ {quiz})
                                          \cup {WithFields(quiz, quiz_data)}]
                   IN  Answered("200",
                                << AddSnapshot(updated, "quiz_history", quiz_id,
                                               "UPDATE", previous_state) >>))

\* quizzes.py lines 188-236.  Quiz.projects (models/quiz.py line 32) has no
\* cascade and project_quizzes.quiz_id is a key column that references the
\* quiz (models/project.py line 33): while a project holds the quiz the
\* final commit cannot delete it and the request fails after the snapshot
\* was committed.
delete_quiz ==
    \E current_user \in Users, quiz_id \in Ids("quizzes") :
        Serve(Request(current_user, "delete_quiz", "quiz", quiz_id, 0, {}),
              IF ~Exists(OwnedBy(db.quizzes, current_user), quiz_id) THEN NotFound
              ELSE LET quiz == Row(db.quizzes, quiz_id)
                       previous_state ==
                           QuizState({"title", "questions"}, quiz.title, "",
                                     QuestionStates(db, quiz_id))
                       recorded == AddSnapshot(db, "quiz_history", quiz_id,
                                               "DELETE", previous_state)
                   IN  IF \E pq \in db.project_quizzes : pq.quiz_id = quiz_id
                       THEN Answered("500", << recorded >>)
                       ELSE Answered("200", << recorded,
                                               DeleteQuizRow(recorded, quiz_id) >>))

\* quizzes.py lines 238-336 with the list generate_quiz returned
regenerate_quiz ==
    \E current_user \in Users, quiz_id \in Ids("quizzes"), generated \in GeneratedLists :
        Serve(Request(current_user, "regenerate_quiz", "quiz", quiz_id, 0, {}),
              IF ~Exists(OwnedBy(db.quizzes, current_user), quiz_id) THEN NotFound
              ELSE IF generated = << >> THEN Answered("500", << >>)
              ELSE LET previous_state ==
                           QuizState({"questions"}, "", "",
                                     QuestionStates(db, quiz_id))
                       cleared == DeleteQuizQuestions(db, quiz_id)
                       steps == QuestionCommits(cleared, quiz_id, generated)
                       recorded ==
                           AddSnapshot(Session(cleared, steps), "quiz_history",
                                       quiz_id, "REGENERATE", previous_state)
                   IN  Answered("200", Committed(steps) \o << recorded >>))

\* quizzes.py lines 702-800
revert_quiz ==
    \E current_user \in Users, quiz_id \in Ids("quizzes"),
       history_id \in HistoryIds("quiz_history") :
        LET target == RevertTarget(db.quiz_history, quiz_id, history_id)
        IN  Serve(Request(current_user, "revert_quiz", "quiz", quiz_id, 0, history_id),
                  IF ~Exists(OwnedBy(db.quizzes, current_user), quiz_id)
                     \/ target = << >>
                  THEN NotFound
                  ELSE LET quiz == Row(db.quizzes, quiz_id)
                           previous_state == target[1].previous_state
                           current_state ==
                               QuizState({"title", "custom_prompt"}, quiz.title,
                                         quiz.custom_prompt, << >>)
                           cleared == IF "questions" \in previous_state.keys
                                      THEN DeleteQuizQuestions(db, quiz_id)
                                      ELSE db
                           steps == QuestionCommits(cleared, quiz_id,
                                                    previous_state.questions)
                           restored == Session(cleared, steps)
                           reverted ==
                               [restored EXCEPT
                                   !.quizzes = (@ \ {quiz})
                                       \cup {WithFields(quiz, previous_state)}]
                       IN  Answered("200",
                                    Committed(steps)
                                    \o << AddSnapshot(reverted, "quiz_history",
                                                      quiz_id, "REVERT",
                                                      current_state) >>))

\* quizzes.py lines 838-854
get_quiz_history ==
    \E current_user \in Users, quiz_id \in Ids("quizzes") :
        Serve(Request(current_user, "get_quiz_history", "quiz", quiz_id, 0, {}),
              IF ~Exists(OwnedBy(db.quizzes, current_user), quiz_id) THEN NotFound
              ELSE Answered("200", << >>))

\* routes/quizzes.py lines 338-360 and question.py lines 88-156: the
\* question is committed before its answers and its CREATE snapshot
add_question ==
    \E current_user \in Users, quiz_id \in Ids("quizzes") :
        LET question_data == [question_text |-> "Q2", question_type |-> "boolean",
                              answers |-> << >>]
            last_position == Len(QuestionsOf(db.questions, quiz_id))
            question_type_value ==
                IF question_data.question_type \in StoredQuestionTypes
                THEN question_data.question_type ELSE "multiple_choice"
            id == db.ids.questions + 1
            new_question == [id |-> id, quiz_id |-> quiz_id,
                             question_text |-> question_data.question_text,
                             question_type |-> question_type_value,
                             position |-> last_position, answers |-> << >>]
            committed == [db EXCEPT !.questions = Append(@, new_question),
                                    !.ids.questions = id]
            answers_data ==
                IF question_data.answers # << >> THEN question_data.answers
                ELSE _generate_default_answers(question_type_value)
            answered == ReplaceQuestion(committed,
                            [new_question EXCEPT !.answers = answers_data])
        IN  Serve(Request(current_user, "add_question", "quiz", quiz_id, quiz_id, {}),
                  IF ~Exists(OwnedBy(db.quizzes, current_user), quiz_id) THEN NotFound
                  ELSE Answered("200",
                                << committed,
                                   AddSnapshot(answered, "question_history", id,
                                               "CREATE", QuestionNull) >>))

\* the fields a PUT of a question sets (schemas/quiz.py lines 57-62): the
\* text, or the type with the answers
QuestionUpdates ==
    { [keys |-> {"question_text"}, question_text |-> "Q1",
       question_type |-> "boolean", position |-> 0, answers |-> << >>],
      [keys |-> {"question_type", "answers"}, question_text |-> "",
       question_type |-> "multiple_choice", position |-> 0,
       answers |-> _generate_default_answers("multiple_choice")] }

\* the answer of a question route when the quiz or the question of its
\* path is missing (quizzes.py lines 381-393), else `answer`
OnQuestion(current_user, quiz_id, question_id, answer) ==
    IF ~Exists(OwnedBy(db.quizzes, current_user), quiz_id) THEN NotFound
    ELSE IF QuestionRows(db, quiz_id, question_id) = << >> THEN NotFound
    ELSE answer

\* routes/quizzes.py lines 362-401 and question.py lines 11-85
update_question ==
    \E current_user \in Users, quiz_id \in Ids("quizzes"), question_id \in Ids("questions"),
       question_data \in QuestionUpdates :
        LET question == QuestionRows(db, quiz_id, question_id)[1]
            Set(key) == key \in question_data.keys
            updated ==
                [question EXCEPT
                    !.question_text = IF Set("question_text")
                                      THEN question_data.question_text ELSE @,
                    !.position = IF Set("position")
                                 THEN question_data.position ELSE @,
                    !.question_type =
                        IF Set("question_type")
                           /\ question_data.question_type \in StoredQuestionTypes
                        THEN question_data.question_type ELSE @,
                    !.answers = IF Set("answers")
                                THEN question_data.answers ELSE @]
        IN  Serve(Request(current_user, "update_question", "question", question_id, quiz_id, {}),
                  OnQuestion(current_user, quiz_id, question_id,
                      Answered("200",
                               << AddSnapshot(ReplaceQuestion(db, updated),
                                              "question_history", question_id,
                                              "UPDATE", QuestionState(question)) >>)))

\* routes/quizzes.py lines 403-426 and question.py lines 159-200: the
\* DELETE snapshot and the deletion are flushed by one commit
delete_question ==
    \E current_user \in Users, quiz_id \in Ids("quizzes"), question_id \in Ids("questions") :
        LET question == QuestionRows(db, quiz_id, question_id)[1]
            recorded == AddSnapshot(db, "question_history", question_id, "DELETE",
                                    QuestionState(question))
        IN  Serve(Request(current_user, "delete_question", "question", question_id, quiz_id, {}),
                  OnQuestion(current_user, quiz_id, question_id,
                      Answered("200",
                               << DeleteQuestionRow(recorded, question_id) >>)))

\* what the provider may reply to the prompt for one question: nothing, an
\* object of type boolean, an object of type multiple_choice
RegenerateReplies ==
    { [failed |-> TRUE, text |-> << >>] }
    \cup { [failed |-> FALSE,
            text |-> << Json(DictVal(RawQuestionDict(
                            {"question_text", "question_type"},
                            "Generated " \o ToString(n), "", 0,
                            StrVal(Generated(n).question_type),
                            NotAList("null")))) >>] : n \in 1..2 }

\* routes/quizzes.py lines 428-555; ai_service.regenerate_question is asked
\* for a question at the stored question's position
regenerate_question ==
    \E current_user \in Users, quiz_id \in Ids("quizzes"), question_id \in Ids("questions"),
       reply \in RegenerateReplies :
        LET question == QuestionRows(db, quiz_id, question_id)[1]
            returned == AIService_regenerate_question(reply, question.position)
            question_data == returned[1]
            updated == [question EXCEPT
                           !.question_text = question_data.question_text,
                           !.answers = question_data.answers]
        IN  Serve(Request(current_user, "regenerate_question", "question", question_id, quiz_id,
                          {}),
                  OnQuestion(current_user, quiz_id, question_id,
                      IF returned = << >> THEN Answered("500", << >>)
                      ELSE Answered("200",
                                    << AddSnapshot(ReplaceQuestion(db, updated),
                                                   "question_history", question_id,
                                                   "REGENERATE",
                                                   QuestionState(question)) >>)))

\* routes/quizzes.py lines 557-700; the provider's call fails and
\* change_question_type falls back
change_type ==
    \E current_user \in Users, quiz_id \in Ids("quizzes"), question_id \in Ids("questions"),
       question_type \in StoredQuestionTypes :
        LET question == QuestionRows(db, quiz_id, question_id)[1]
            called == change_question_type(
                          QuestionData(question.question_text,
                                       question.question_type, "",
                                       question.position),
                          question_type, [failed |-> TRUE, text |-> << >>])
            new_question_data == called.value
            updated == [question EXCEPT
                           !.question_type = question_type,
                           !.question_text = new_question_data.question_text,
                           !.answers = new_question_data.answers]
        IN  Serve(Request(current_user, "change_type", "question", question_id, quiz_id, {}),
                  OnQuestion(current_user, quiz_id, question_id,
                      IF question.question_type = question_type
                      THEN Answered("200", << >>)
                      ELSE IF called.raised # "" THEN Answered("500", << >>)
                      ELSE Answered("200",
                                    << AddSnapshot(ReplaceQuestion(db, updated),
                                                   "question_history", question_id,
                                                   "UPDATE",
                                                   QuestionState(question)) >>)))

\* routes/quizzes.py lines 802-836 and question.py lines 203-282
revert_question ==
    \E current_user \in Users, quiz_id \in Ids("quizzes"), question_id \in Ids("questions"),
       history_id \in HistoryIds("question_history") :
        LET target == RevertTarget(db.question_history, question_id, history_id)
            question == QuestionRows(db, quiz_id, question_id)[1]
            previous_state == target[1].previous_state
            reverted == [question EXCEPT
                            !.question_text = previous_state.question_text,
                            !.question_type = previous_state.question_type,
                            !.position = previous_state.position,
                            !.answers = previous_state.answers]
        IN  Serve(Request(current_user, "revert_question", "question", question_id, quiz_id,
                          history_id),
                  OnQuestion(current_user, quiz_id, question_id,
                      IF target = << >> THEN NotFound
                      ELSE Answered("200",
                                    << AddSnapshot(ReplaceQuestion(db, reverted),
                                                   "question_history", question_id,
                                                   "REVERT",
                                                   QuestionState(question)) >>)))

\* quizzes.py lines 856-882
get_question_history ==
    \E current_user \in Users, quiz_id \in Ids("quizzes"), question_id \in Ids("questions") :
        Serve(Request(current_user, "get_question_history", "question", question_id, quiz_id,
                      {}),
              OnQuestion(current_user, quiz_id, question_id, Answered("200", << >>)))

\* projects.py lines 25-54: the project is committed, then its CREATE
\* snapshot
create_project ==
    /\ served < MaxRequests
    /\ \E current_user \in Users :
       LET project_id == db.ids.projects + 1
           created == [db EXCEPT
                          !.projects = @ \cup {[id |-> project_id,
                                                user_id |-> current_user,
                                                title |-> "T2",
                                                custom_prompt |-> ""]},
                          !.ids.projects = project_id]
       IN  Serve(Request(current_user, "create_project", "project", project_id, 0, {}),
                 Answered("200", << created,
                                    AddSnapshot(created, "project_history", project_id,
                                                "CREATE", ProjectNull) >>))

\* projects.py lines 92-134
update_project ==
    \E current_user \in Users, project_id \in Ids("projects"), project_data \in Updates :
        Serve(Request(current_user, "update_project", "project", project_id, 0, {}),
              IF ~Exists(OwnedBy(db.projects, current_user), project_id) THEN NotFound
              ELSE LET project == Row(db.projects, project_id)
                       previous_state ==
                           ProjectState({"title", "custom_prompt"}, project.title,
                                        project.custom_prompt, {})
                       updated == [db EXCEPT
                                      !.projects = (@ \ {project})
                                          \cup {WithFields(project, project_data)}]
                   IN  Answered("200",
                                << AddSnapshot(updated, "project_history",
                                               project_id, "UPDATE",
                                               previous_state) >>))

\* projects.py lines 136-183: the DELETE snapshot is committed, then the
\* project is deleted
delete_project ==
    \E current_user \in Users, project_id \in Ids("projects") :
        Serve(Request(current_user, "delete_project", "project", project_id, 0, {}),
              IF ~Exists(OwnedBy(db.projects, current_user), project_id) THEN NotFound
              ELSE LET project == Row(db.projects, project_id)
                       previous_state ==
                           ProjectState({"title", "custom_prompt", "quizzes"},
                                        project.title, project.custom_prompt,
                                        ProjectQuizzes(db, project_id))
                       recorded == AddSnapshot(db, "project_history", project_id,
                                               "DELETE", previous_state)
                   IN  Answered("200", << recorded,
                                          DeleteProjectRow(recorded, project_id) >>))

\* projects.py lines 185-252
add_quiz_to_project ==
    \E current_user \in Users, project_id \in Ids("projects"), quiz_id \in Ids("quizzes") :
        LET quizzes == ProjectQuizzes(db, project_id)
            added == { q \in quizzes : q.quiz_id # quiz_id }
                     \cup {[quiz_id |-> quiz_id, position |-> 1]}
        IN  Serve(Request(current_user, "add_quiz_to_project", "project", project_id, quiz_id,
                          {}),
                  IF ~Exists(OwnedBy(db.projects, current_user), project_id) THEN NotFound
                  ELSE IF ~Exists(OwnedBy(db.quizzes, current_user), quiz_id) THEN NotFound
                  ELSE Answered("200",
                                << AddSnapshot(
                                       WithProjectQuizzes(db, project_id, added),
                                       "project_history", project_id, "ADD_QUIZ",
                                       ProjectState({"quizzes"}, "", "",
                                                    quizzes)) >>))

\* projects.py lines 254-303
remove_quiz_from_project ==
    \E current_user \in Users, project_id \in Ids("projects"), quiz_id \in Ids("quizzes") :
        LET quizzes == ProjectQuizzes(db, project_id)
            left == { q \in quizzes : q.quiz_id # quiz_id }
        IN  Serve(Request(current_user, "remove_quiz_from_project", "project", project_id,
                          quiz_id, {}),
                  IF ~Exists(OwnedBy(db.projects, current_user), project_id) \/ left = quizzes
                  THEN NotFound
                  ELSE Answered("200",
                                << AddSnapshot(
                                       WithProjectQuizzes(db, project_id, left),
                                       "project_history", project_id,
                                       "REMOVE_QUIZ",
                                       ProjectState({"quizzes"}, "", "",
                                                    quizzes)) >>))

\* projects.py lines 305-356; the list gives one quiz the position 2
reorder_project_quizzes ==
    \E current_user \in Users, project_id \in Ids("projects"), quiz_id \in Ids("quizzes") :
        LET quizzes == ProjectQuizzes(db, project_id)
            moved == { IF q.quiz_id = quiz_id THEN [q EXCEPT !.position = 2]
                       ELSE q : q \in quizzes }
        IN  Serve(Request(current_user, "reorder_project_quizzes", "project", project_id,
                          quiz_id, {}),
                  IF ~Exists(OwnedBy(db.projects, current_user), project_id) THEN NotFound
                  ELSE Answered("200",
                                << AddSnapshot(
                                       WithProjectQuizzes(db, project_id, moved),
                                       "project_history", project_id, "REORDER",
                                       ProjectState({"quizzes"}, "", "",
                                                    quizzes)) >>))

\* projects.py lines 380-469.  A restored association with a quiz that no
\* longer exists violates the key of models/project.py line 33 and the one
\* commit fails.
revert_project ==
    \E current_user \in Users, project_id \in Ids("projects"),
       history_id \in HistoryIds("project_history") :
        LET target == RevertTarget(db.project_history, project_id, history_id)
            project == Row(db.projects, project_id)
            previous_state == target[1].previous_state
            current_state == ProjectState({"title", "custom_prompt", "quizzes"},
                                          project.title, project.custom_prompt,
                                          ProjectQuizzes(db, project_id))
            renamed == [db EXCEPT
                           !.projects = (@ \ {project})
                               \cup {WithFields(project, previous_state)}]
            reverted == IF "quizzes" \in previous_state.keys
                        THEN WithProjectQuizzes(renamed, project_id,
                                                previous_state.quizzes)
                        ELSE renamed
        IN  Serve(Request(current_user, "revert_project", "project", project_id, 0, history_id),
                  IF ~Exists(OwnedBy(db.projects, current_user), project_id) \/ target = << >>
                  THEN NotFound
                  ELSE IF \E q \in previous_state.quizzes :
                             ~Exists(db.quizzes, q.quiz_id)
                  THEN Answered("500", << >>)
                  ELSE Answered("200",
                                << AddSnapshot(reverted, "project_history",
                                               project_id, "REVERT",
                                               current_state) >>))

\* projects.py lines 358-378
get_project_history ==
    \E current_user \in Users, project_id \in Ids("projects") :
        Serve(Request(current_user, "get_project_history", "project", project_id,
                      0, {}),
              IF ~Exists(OwnedBy(db.projects, current_user), project_id)
              THEN NotFound
              ELSE Answered("200", << >>))

\* quizzes.py lines 131-144
get_quiz ==
    \E current_user \in Users, quiz_id \in Ids("quizzes") :
        Serve(Request(current_user, "get_quiz", "quiz", quiz_id, 0, {}),
              IF ~Exists(OwnedBy(db.quizzes, current_user), quiz_id) THEN NotFound
              ELSE Answered("200", << >>))

\* projects.py lines 72-89
get_project ==
    \E current_user \in Users, project_id \in Ids("projects") :
        Serve(Request(current_user, "get_project", "project", project_id, 0, {}),
              IF ~Exists(OwnedBy(db.projects, current_user), project_id)
              THEN NotFound
              ELSE Answered("200", << >>))

\* routes/history.py lines 141-208: GET /history/detail/{entity_type}/{id}.
\* The snapshot is looked up by id alone, then the quiz or project it
\* belongs to is looked up among the user's; a question's snapshot is
\* checked through the question's quiz when the question exists.
get_history_detail ==
    \E current_user \in Users, entity_type \in {"quiz", "question", "project"} :
        \E history_id \in Ids(entity_type \o "_history") :
            LET history == db[entity_type \o "_history"]
                Wanted(h) == h.id = history_id
                found == SelectSeq(history, Wanted)
                history_item == found[1]
                Asked(q) == q.id = history_item.owner
                question == SelectSeq(db.questions, Asked)
                authorized ==
                    IF entity_type = "quiz"
                    THEN Exists(OwnedBy(db.quizzes, current_user), history_item.owner)
                    ELSE IF entity_type = "project"
                    THEN Exists(OwnedBy(db.projects, current_user),
                                history_item.owner)
                    ELSE question = << >>
                         \/ Exists(OwnedBy(db.quizzes, current_user),
                                   question[1].quiz_id)
            IN  Serve(Request(current_user, "get_history_detail", entity_type,
                              IF found = << >> THEN 0 ELSE history_item.owner,
                              0, {history_id}),
                      IF found = << >> THEN NotFound
                      ELSE IF ~authorized THEN NotFound
                      ELSE Answered("200", << >>))

NextHistory ==
    \/ generate \/ update_quiz \/ delete_quiz \/ regenerate_quiz \/ revert_quiz
    \/ get_quiz_history
    \/ add_question \/ update_question \/ delete_question \/ regenerate_question
    \/ change_type \/ revert_question \/ get_question_history
    \/ create_project \/ update_project \/ delete_project \/ add_quiz_to_project
    \/ remove_quiz_from_project \/ reorder_project_quizzes \/ revert_project
    \/ get_project_history
    \/ get_quiz \/ get_project \/ get_history_detail

SpecHistory == InitHistory /\ [][NextHistory]_vars
----------------------------------------------------------------------------
(* SpecActivity: one GET /history/activity-log on drawn history tables *)

InitActivity ==
    /\ IdleNormalize /\ IdleParse /\ IdleGenerate(0) /\ IdleChange /\ IdleHistory
    /\ \E timeline \in SeqsUpTo(EntityTypes \X Users, MaxEntries) :
          al_history = HistoryAfter(timeline)
    /\ al_user = 0
    /\ al_skip = 0
    /\ al_limit = 0
    /\ al_result = << >>

\* routes/history.py lines 253-275
activity_log ==
    /\ al_limit = 0
    /\ \E current_user \in Users, skip \in 0..MaxSkip, limit \in 1..MaxLimit :
          /\ al_user' = current_user
          /\ al_skip' = skip
          /\ al_limit' = limit
          /\ al_result' = get_activity_log(al_history, current_user, skip, limit)
    /\ UNCHANGED << normalize_vars, parse_vars, generate_vars, change_vars,
                    history_vars, al_history >>

NextActivity == activity_log

SpecActivity == InitActivity /\ [][NextActivity]_vars

----------------------------------------------------------------------------
(* Properties of the normalizer, checked under SpecNormalize *)

Normalized == vq_result # NoResult
NormalizedQuestion == vq_result.value

CorrectAnswers(question) ==
    { i \in 1..Len(question.answers) : question.answers[i].is_correct }

\* C3: for every input to the normalizer, the returned question has exactly
\* one answer with is_correct = true.
C3_ExactlyOneCorrect ==
    (Normalized /\ vq_result.raised = "")
        => Cardinality(CorrectAnswers(NormalizedQuestion)) = 1

\* C4: for every input to the normalizer, the returned question has exactly
\* 2 answers when its question_type is boolean and exactly 4 when it is
\* multiple_choice, whether the answers were supplied or generated.
C4_AnswerCountFitsType ==
    (Normalized /\ vq_result.raised = "")
        => /\ NormalizedQuestion.question_type \in {"boolean", "multiple_choice"}
           /\ NormalizedQuestion.question_type = "boolean"
                 => Len(NormalizedQuestion.answers) = 2
           /\ NormalizedQuestion.question_type = "multiple_choice"
                 => Len(NormalizedQuestion.answers) = 4

\* a boolean question supplied with a single answer was padded to two
C4_Witness ==
    /\ Normalized /\ vq_result.raised = ""
    /\ vq_question.isdict /\ "answers" \in vq_question.keys
    /\ vq_question.answers.t = "list" /\ Len(vq_question.answers.items) = 1
    /\ NormalizedQuestion.question_type = "boolean"
    /\ Len(NormalizedQuestion.answers) = 2

\* C5: the returned question's position equals the position argument, for
\* every raw question, also one that carries its own position.
C5_PositionIsSupplied ==
    (Normalized /\ vq_result.raised = "")
        => NormalizedQuestion.position = vq_position

\* C6: the normalizer is total: it returns a question for every raw
\* question and never raises; a non-object yields the placeholder question
\* of the position.
C6_NormalizerTotal ==
    Normalized
        => /\ vq_result.raised = ""
           /\ ~vq_question.isdict
                 => /\ NormalizedQuestion.question_text
                          = "Default Question " \o ToString(vq_position + 1)
                    /\ NormalizedQuestion.position = vq_position

\* C19: a boolean question with fewer than 2 answers is padded to exactly 2
\* with the True/False placeholders: a question whose only answer is the
\* correct answer "True" normalizes to ["True" (correct), "False" (not
\* correct)].
C19_BooleanPaddedWithTrueFalse ==
    ( /\ Normalized /\ vq_result.raised = ""
      /\ vq_question.isdict /\ "answers" \in vq_question.keys
      /\ vq_question.answers = ListVal(<< RawAnswerDict(AnswerKeys, "True", TRUE, 0) >>)
      /\ NormalizedQuestion.question_type = "boolean" )
        => NormalizedQuestion.answers
               = << Answer("True", TRUE, 0), Answer("False", FALSE, 1) >>

----------------------------------------------------------------------------
(* Properties of the response parser, checked under SpecParse *)

\* C7: for every raw text the parser returns a parsed JSON value or the
\* empty-sequence failure value; no parse failure escapes as an exception.
C7_ParserNeverRaises ==
    pj_result # NoParse => pj_result.raised = ""

----------------------------------------------------------------------------
(* Properties of generate_quiz and its routes, checked under Spec *)

\* every text the parser tries to decode for a response: the text itself,
\* its code blocks, its bracketed substrings, the text without line breaks
Candidates(text) ==
    << text >> \o CodeBlocks(text) \o BracketMatches(text) \o << Cleaned(text) >>

\* a text that cannot be parsed as JSON: no candidate decodes
NotJson(text) ==
    /\ text # << >>
    /\ \A i \in 1..Len(Candidates(text)) :
          json_loads(Candidates(text)[i]).raised = "JSONDecodeError"

RECURSIVE FirstParsed(_)
\* the value of the first text of the list that json.loads decodes, or the
\* empty list when it decodes none
FirstParsed(texts) ==
    IF texts = << >> THEN ListVal(<< >>)
    ELSE IF json_loads(Head(texts)).raised = ""
         THEN json_loads(Head(texts)).value
         ELSE FirstParsed(Tail(texts))

\* C20: the parser tries direct parse, fenced code blocks in order of
\* appearance, the bracket-delimited substring and the newline-stripped
\* text in this order and returns the value of the first that parses; a
\* later strategy is tried whenever every earlier one failed, and the empty
\* sequence is returned only when all failed.
C20_FirstParsingStrategyWins ==
    pj_result # NoParse
        => pj_result = Returned(FirstParsed(Candidates(pj_response)))

\* the provider raised, or replied with the empty string
EmptyOrFailed(reply) == reply.failed \/ reply.text = << >>

\* the parser got a usable value out of the reply
Parseable(reply) ==
    LET parsed == _extract_and_parse_json(_generate_content(reply))
    IN  parsed.raised = "" /\ parsed.value # ListVal(<< >>)

\* the parser returned for every reply (none made it raise)
ParserReturned ==
    \A i \in 1..Len(replies) :
        _extract_and_parse_json(_generate_content(replies[i])).raised = ""

\* a placeholder question: multiple_choice, the four default options, the
\* first one correct
IsPlaceholderAt(question, position) ==
    /\ question.question_text = "Default Question " \o ToString(position + 1)
    /\ question.question_type = "multiple_choice"
    /\ question.position = position
    /\ Len(question.answers) = 4
    /\ CorrectAnswers(question) = {1}
    /\ \A i \in 1..4 : question.answers[i].position = i - 1
    /\ question.answers[1].answer_text = "Option A"
    /\ question.answers[4].answer_text = "Option D"

\* C1: for every num_questions N >= 1 and every provider behaviour (no
\* valid entry, fewer than N, exactly N, more than N, malformed entries),
\* generate_quiz returns a list of exactly N questions.  Stated for the
\* replies the parser returns a value for.
C1_ExactlyNQuestions ==
    (pc = "done" /\ ParserReturned) => Len(gq_result) = num_questions

\* C2: the i-th question generate_quiz returns has position i (from 0),
\* whatever positions the provider put in its entries.
C2_PositionsInListOrder ==
    pc = "done" => \A i \in 1..Len(gq_result) : gq_result[i].position = i - 1

\* C8: when the provider's text cannot be parsed as JSON on the primary and
\* on the retry attempt, generate_quiz returns num_questions placeholder
\* questions, multiple_choice with the four default options (the first one
\* correct), at positions 0..N-1.
C8_UnparsableYieldsPlaceholders ==
    (/\ pc = "done"
     /\ \A i \in 1..Len(replies) : ~replies[i].failed /\ NotJson(replies[i].text))
        => /\ Len(replies) = 2
           /\ Len(gq_result) = num_questions
           /\ \A i \in 1..Len(gq_result) : IsPlaceholderAt(gq_result[i], i - 1)

\* two unparsable replies, several questions asked for
C8_Witness ==
    /\ pc = "done" /\ Len(replies) = 2 /\ num_questions >= 2
    /\ \A i \in 1..2 : ~replies[i].failed /\ NotJson(replies[i].text)
    /\ replies[1].text = << Prose >>
    /\ Len(gq_result) = num_questions

\* C9: generate_quiz returns an empty sequence only if the provider
\* returned empty or failed at every attempt; whenever some attempt returned
\* parseable content, the result is non-empty.  Stated for the replies the
\* parser returns a value for.
C9_EmptyOnlyIfProviderFailed ==
    (pc = "done" /\ ParserReturned)
        => /\ gq_result = << >>
                 => \A i \in 1..Len(replies) : EmptyOrFailed(replies[i])
           /\ (\E i \in 1..Len(replies) : Parseable(replies[i]))
                 => gq_result # << >>

\* total generation failure: the provider is unreachable, or its output is
\* unparsable, on the primary attempt and on the retry
TotalFailure ==
    /\ Len(replies) = 2
    /\ \A i \in 1..2 : EmptyOrFailed(replies[i]) \/ NotJson(replies[i].text)

\* the database as it was before the request
DatabaseUntouched ==
    /\ db_quizzes = {ExistingQuiz}
    /\ \A i \in 1..Len(db_questions) : db_questions[i] = OldQuestion(i)
    /\ Len(db_quiz_history) = 1

StoredByRequest ==
    QuestionsOf(db_questions, IF route = "generate" THEN 1 + ExistingQuiz ELSE ExistingQuiz)

UsableFirstResponse ==
    LET parsed == _extract_and_parse_json(_generate_content(replies[1]))
    IN  /\ parsed.raised = ""
        /\ \/ parsed.value.t = "list" /\ parsed.value.items # << >>
           \/ parsed.value.t = "dict" /\ parsed.value.items[1].keys # {}

\* C21: in one generate_quiz call the provider is invoked once, and a
\* single retry is issued exactly when parsing the first response yields no
\* usable array or object; a first response that parses to a usable array
\* or to a single object is used without a retry, and the provider is never
\* invoked more than twice.
C21_RetryExactlyWhenUnusable ==
    pc = "done"
        => /\ Len(replies) \in {1, 2}
           /\ Len(replies) = 2 <=> ~UsableFirstResponse

\* C27: when generation returns an empty result during quiz regenerate, the
\* request fails and the quiz's existing questions, their answers and the
\* quiz's history are left exactly as they were; when it does so during quiz
\* generate, no quiz and no snapshot is created.  No step of a request whose
\* generation result is empty changes a quiz, a question or a snapshot, and
\* the request ends with an error.
C27_EmptyResultChangesNothing ==
    [][gq_result' = << >>
          => /\ UNCHANGED << db_quizzes, db_questions, db_quiz_history >>
             /\ pc' = "done" => http_status' = "500"]_vars

\* a regenerate request on a quiz with several questions ended with an
\* empty generation result
C27_Witness ==
    /\ pc = "done" /\ route = "regenerate" /\ gq_result = << >>
    /\ http_status = "500"
    /\ Len(QuestionsOf(db_questions, ExistingQuiz)) >= 2
    /\ DatabaseUntouched

----------------------------------------------------------------------------
(* Properties of change_question_type, checked under SpecChangeType *)

\* the call was made with a type the function accepts
ChangeCalled == ct_result # NoResult /\ ct_new_type \in {"boolean", "multiple_choice"}

\* what the parser made of the provider's response
ResponseValue == _extract_and_parse_json(_generate_content(ct_reply))

\* the result keeps the original question_text, explanation and position,
\* carries the requested type and that type's default answers
IsFallback ==
    /\ ct_result.raised = ""
    /\ ct_result.value.question_text = ct_question_data.question_text
    /\ ct_result.value.explanation = ct_question_data.explanation
    /\ ct_result.value.position = ct_question_data.position
    /\ ct_result.value.question_type = ct_new_type
    /\ ct_result.value.answers =
           IF ct_new_type = "boolean"
           THEN << Answer("True", TRUE, 0), Answer("False", FALSE, 1) >>
           ELSE << Answer("Option A", TRUE, 0), Answer("Option B", FALSE, 1),
                   Answer("Option C", FALSE, 2), Answer("Option D", FALSE, 3) >>

\* the response holds a question: a non-empty object, or a list that
\* starts with one
HoldsQuestion(value) ==
    /\ value.t \in {"list", "dict"} /\ value.items # << >>
    /\ value.items[1].isdict /\ value.items[1].keys # {}

\* C18 as stated: on total failure (provider error, empty or unparsable
\* response, or a response that is not an object) change_question_type
\* returns the fallback: original question_text, explanation and position,
\* the requested type, that type's default answers.
C18_FallbackWhenNotAnObject ==
    (ChangeCalled /\ (ResponseValue.raised # "" \/ ResponseValue.value.t # "dict"))
        => IsFallback

\* C18 amended: the fallback is returned on provider error, on an empty or
\* unparsable response, and on a response that is neither a non-empty
\* object nor a list starting with one.
C18_FallbackOnTotalFailure ==
    (ChangeCalled /\ (ResponseValue.raised # "" \/ ~HoldsQuestion(ResponseValue.value)))
        => IsFallback

\* the provider replied with a JSON scalar and the fallback was returned
\* for a question that has an explanation
C18_Witness ==
    /\ ChangeCalled
    /\ ~ct_reply.failed /\ ct_reply.text = << Json(ScalarVal) >>
    /\ ct_question_data.explanation # ""
    /\ IsFallback

----------------------------------------------------------------------------
(* Properties of the history routes, checked under SpecHistory *)

RevertOps == {"revert_quiz", "revert_question", "revert_project"}

\* the history table of a kind of entity
HistoryOf(d, kind) ==
    IF kind = "quiz" THEN d.quiz_history
    ELSE IF kind = "question" THEN d.question_history
    ELSE d.project_history

\* the step serves a request
Serves == served' # served

\* the snapshot the request asks for does not exist: without an id, the
\* entity has no snapshot with a previous_state; with an id, no snapshot
\* of the entity has that id
TargetMissing(history, req) ==
    IF req.history_id = {}
    THEN \A i \in 1..Len(history) :
            ~(history[i].owner = req.id /\ history[i].previous_state.present)
    ELSE \A i \in 1..Len(history) :
            ~(history[i].owner = req.id /\ history[i].id \in req.history_id)

\* C11: a revert whose target snapshot does not exist (no id given and the
\* entity has no snapshot with a previous_state, or an id given that names
\* no snapshot of the entity) is answered 404 and leaves every row and
\* every snapshot as it was.
C11_RevertOfMissingSnapshotIsNotFound ==
    [][ (/\ Serves
         /\ request'.op \in RevertOps
         /\ TargetMissing(HistoryOf(db, request'.kind), request'))
        => (request'.status = "404" /\ db' = db) ]_vars

\* the fields a previous_state of this kind stores
KeysOf(kind, state) ==
    IF kind = "question"
    THEN {"question_text", "question_type", "position", "answers"}
    ELSE state.keys

\* the two states hold the same value under each of the keys
Agree(a, b, keys) == \A key \in keys : a[key] = b[key]

\* the entity a request acts on, as a snapshot would store all of it: its
\* columns and its child collection
StateOf(d, req) ==
    IF req.kind = "quiz"
    THEN QuizState({"title", "custom_prompt", "questions"},
                   Row(d.quizzes, req.id).title,
                   Row(d.quizzes, req.id).custom_prompt,
                   QuestionStates(d, req.id))
    ELSE IF req.kind = "question"
    THEN QuestionState(QuestionRows(d, req.quiz_id, req.id)[1])
    ELSE ProjectState({"title", "custom_prompt", "quizzes"},
                      Row(d.projects, req.id).title,
                      Row(d.projects, req.id).custom_prompt,
                      ProjectQuizzes(d, req.id))

\* the snapshots of one entity, oldest first
SnapshotsOf(d, req) ==
    LET Mine(h) == h.owner = req.id
    IN  SelectSeq(HistoryOf(d, req.kind), Mine)

\* the request was a revert without history_id that was answered 200
RevertedToLatest(req) ==
    req.op \in RevertOps /\ req.history_id = {} /\ req.status = "200"

\* C12: a revert without id, when the entity's latest snapshot was written
\* by a request that changed the entity, sets every field that snapshot
\* stores back to the stored value, and appends a REVERT snapshot that
\* stores, for each of those fields, the value the revert overwrote.
C12_RevertRoundTrip ==
    [][ (/\ Serves
         /\ RevertedToLatest(request')
         /\ RevertTarget(HistoryOf(db, request'.kind), request'.id, {})[1].action
                # "DELETE")
        => LET kind == request'.kind
               S1 == RevertTarget(HistoryOf(db, kind), request'.id, {})[1]
                         .previous_state
               S2 == StateOf(db, request')
               snapshots == SnapshotsOf(db', request')
               appended == snapshots[Len(snapshots)]
           IN  /\ Agree(StateOf(db', request'), S1, KeysOf(kind, S1))
               /\ appended.action = "REVERT"
               /\ appended.previous_state.present
               /\ KeysOf(kind, S1) \subseteq KeysOf(kind, appended.previous_state)
               /\ Agree(appended.previous_state, S2, KeysOf(kind, S1)) ]_vars

\* C13: the second of two consecutive reverts without id of one entity
\* leaves the entity, columns and child collection, as it was before the
\* first, and each of the two appends a REVERT snapshot.
C13_UndoOfUndo ==
    [][ (/\ Serves
         /\ RevertedToLatest(request) /\ RevertedToLatest(request')
         /\ request'.kind = request.kind /\ request'.id = request.id)
        => LET first == SnapshotsOf(db, request')
               second == SnapshotsOf(db', request')
           IN  /\ StateOf(db', request') = StateOf(before, request')
               /\ Len(first) = Len(SnapshotsOf(before, request')) + 1
               /\ first[Len(first)].action = "REVERT"
               /\ Len(second) = Len(first) + 1
               /\ second[Len(second)].action = "REVERT" ]_vars

HistoryTables == {"quiz_history", "question_history", "project_history"}

\* C14: a snapshot stays in its table as it was written, unless it is a
\* quiz's or a question's snapshot and that quiz or question is gone.
C14_SnapshotsAreImmutable ==
    [][ \A table \in HistoryTables : \A i \in 1..Len(db[table]) :
            LET h == db[table][i]
            IN  \/ \E j \in 1..Len(db'[table]) : db'[table][j] = h
                \/ table = "quiz_history" /\ << "quiz", h.owner >> \notin Entities(db')
                \/ /\ table = "question_history"
                   /\ << "question", h.owner >> \notin Entities(db') ]_vars

MutatingOps ==
    {"update_quiz", "regenerate_quiz", "revert_quiz", "delete_quiz",
     "update_question", "regenerate_question", "change_type", "revert_question",
     "delete_question", "update_project", "revert_project", "delete_project",
     "add_quiz_to_project", "remove_quiz_from_project", "reorder_project_quizzes"}

\* C15: a mutating request answered 200 that changed the database leaves
\* the snapshots of its entity as they were plus one, and the fields the
\* new snapshot stores hold the values the entity had before the request.
C15_OneSnapshotPerMutation ==
    [][ (/\ Serves
         /\ request'.op \in MutatingOps
         /\ request'.status = "200"
         /\ db' # db)
        => LET old == SnapshotsOf(db, request')
               new == SnapshotsOf(db', request')
               stored == new[Len(new)].previous_state
           IN  /\ Len(new) = Len(old) + 1
               /\ SubSeq(new, 1, Len(old)) = old
               /\ stored.present
               /\ Agree(stored, StateOf(db, request'),
                        KeysOf(request'.kind, stored)) ]_vars

\* C16: no step commits a change to a quiz, question, project or
\* association row without also committing a snapshot written by the same
\* request.
C16_MutationAndSnapshotAreOneUnit ==
    [][ << db'.quizzes, db'.questions, db'.projects, db'.project_quizzes >>
            # << db.quizzes, db.questions, db.projects, db.project_quizzes >>
        => \E table \in HistoryTables : db'.ids[table] > db.ids[table] ]_vars

\* the requests the claim names after a deletion
LaterOps ==
    {"update_quiz", "regenerate_quiz", "revert_quiz", "get_quiz_history",
     "update_question", "regenerate_question", "revert_question",
     "get_question_history", "update_project", "revert_project",
     "get_project_history"}

\* C17: an update, regenerate, revert or history request on a quiz,
\* question or project that a delete request removed is answered 404 and
\* changes no row and no snapshot.
C17_DeletedIsTerminal ==
    [][ (/\ Serves
         /\ request'.op \in LaterOps
         /\ << request'.kind, request'.id >> \in deleted)
        => (request'.status = "404" /\ db' = db) ]_vars

\* a request on a deleted entity was served
C17_Witness ==
    /\ request.op \in LaterOps
    /\ << request.kind, request.id >> \in deleted
    /\ request.status = "404"
    /\ db = before


\* the snapshot a revert request asks for: with an id, the snapshot of the
\* entity that has this id; without, the entity's most recent snapshot
\* whose previous_state is not null; << >> when there is none
SnapshotAskedFor(history, req) ==
    LET Named(h) == h.owner = req.id /\ h.id \in req.history_id
        Latest(h) == h.owner = req.id /\ h.previous_state.present
        found == IF req.history_id = {} THEN SelectSeq(history, Latest)
                 ELSE SelectSeq(history, Named)
    IN  IF found = << >> THEN << >> ELSE << found[Len(found)] >>

\* C22: revert with a snapshot id uses exactly that snapshot of the entity;
\* revert without a snapshot id uses the entity's most recent snapshot whose
\* previous_state is non-null, skipping newer snapshots with null
\* previous_state and ignoring snapshots of other entities.  A revert that
\* is answered 200 has set every field that snapshot stores to the value
\* stored in it.
C22_RevertUsesTheSnapshotAskedFor ==
    [][ (Serves /\ request'.op \in RevertOps /\ request'.status = "200")
        => LET asked == SnapshotAskedFor(HistoryOf(db, request'.kind), request')
           IN  /\ asked # << >>
               /\ asked[1].previous_state.present
               /\ Agree(StateOf(db', request'), asked[1].previous_state,
                        KeysOf(request'.kind, asked[1].previous_state)) ]_vars


\* the fields of a quiz or project and its child collection
AllKeys(kind) ==
    IF kind = "quiz" THEN {"title", "custom_prompt", "questions"}
    ELSE {"title", "custom_prompt", "quizzes"}

\* C23: revert is a partial overwrite: it captures the current state first,
\* then overwrites only the fields whose keys are present in the selected
\* previous_state; every field and child collection whose key is absent is
\* left unchanged (reverting a REGENERATE snapshot leaves the title
\* untouched, reverting an UPDATE snapshot leaves the questions untouched).
C23_RevertIsAPartialOverwrite ==
    [][ (/\ Serves
         /\ request'.op \in {"revert_quiz", "revert_project"}
         /\ request'.status = "200")
        => LET kind == request'.kind
               selected == RevertTarget(HistoryOf(db, kind), request'.id,
                                        request'.history_id)[1].previous_state
               snapshots == SnapshotsOf(db', request')
               captured == snapshots[Len(snapshots)].previous_state
           IN  /\ Agree(StateOf(db', request'), StateOf(db, request'),
                        AllKeys(kind) \ selected.keys)
               /\ "questions" \notin selected.keys => db'.questions = db.questions
               /\ "quizzes" \notin selected.keys
                     => db'.project_quizzes = db.project_quizzes
               /\ captured.present
               /\ Agree(captured, StateOf(db, request'), captured.keys) ]_vars

\* a quiz was renamed, then regenerated, then reverted to the REGENERATE
\* snapshot, which stores questions only: the new title is still there
C23_Witness ==
    /\ request.op = "revert_quiz" /\ request.status = "200"
    /\ RevertTarget(before.quiz_history, request.id, request.history_id)[1]
          .previous_state.keys = {"questions"}
    /\ Row(before.quizzes, request.id).title = "T1"
    /\ Row(db.quizzes, request.id).title = "T1"


\* the ids of the questions of a quiz
QuestionIdsOf(d, quiz_id) ==
    { QuestionsOf(d.questions, quiz_id)[i].id :
          i \in 1..Len(QuestionsOf(d.questions, quiz_id)) }

\* C24: reverting a composite entity to a snapshot that stores a child
\* collection replaces the whole collection: afterwards the quiz's questions
\* (text, type, position, answers) or the project's quiz associations (quiz
\* id, position) are exactly those stored in the snapshot, and none of the
\* pre-revert children remains.
C24_RevertReplacesTheWholeCollection ==
    [][ (/\ Serves
         /\ request'.op \in {"revert_quiz", "revert_project"}
         /\ request'.status = "200")
        => LET selected == RevertTarget(HistoryOf(db, request'.kind), request'.id,
                                        request'.history_id)[1].previous_state
           IN  /\ "questions" \in selected.keys
                     => /\ QuestionStates(db', request'.id) = selected.questions
                        /\ QuestionIdsOf(db', request'.id)
                               \cap QuestionIdsOf(db, request'.id) = {}
               /\ "quizzes" \in selected.keys
                     => ProjectQuizzes(db', request'.id) = selected.quizzes ]_vars

\* a regenerated quiz was reverted to the REGENERATE snapshot: it holds the
\* stored question again, under a new id, and neither generated question
C24_Witness ==
    /\ request.op = "revert_quiz" /\ request.status = "200"
    /\ RevertTarget(before.quiz_history, request.id, request.history_id)[1]
          .previous_state.keys = {"questions"}
    /\ Len(QuestionStates(before, request.id)) = 2
    /\ Len(QuestionStates(db, request.id)) = 1
    /\ QuestionStates(db, request.id)[1].question_text = "Q0"


\* no two questions of the quiz have the same position
DistinctPositions(d, quiz_id) ==
    LET rows == QuestionsOf(d.questions, quiz_id)
    IN  \A i, j \in 1..Len(rows) : rows[i].position = rows[j].position => i = j

\* C25: after any sequence of add_question and delete_question on a quiz,
\* no two questions of that quiz have the same position: neither operation
\* gives two questions of a quiz one position.
C25_PositionsStayDistinct ==
    [][ (/\ Serves
         /\ request'.op \in {"add_question", "delete_question"}
         /\ request'.status = "200"
         /\ DistinctPositions(db, request'.quiz_id))
        => DistinctPositions(db', request'.quiz_id) ]_vars


\* the number of answers a question of this type has
AnswersOfType(question_type) == IF question_type = "boolean" THEN 2 ELSE 4

\* C26: after a successful single-question regenerate, the stored
\* question's answers fit its stored question_type (two for boolean, four
\* for multiple_choice), also when the provider's reply names a different
\* type than the one requested.
C26_RegeneratedAnswersFitStoredType ==
    [][ (/\ Serves
         /\ request'.op = "regenerate_question"
         /\ request'.status = "200")
        => LET stored == QuestionRows(db', request'.quiz_id, request'.id)[1]
           IN  Len(stored.answers) = AnswersOfType(stored.question_type) ]_vars


\* every quiz association of the project refers to a quiz that exists
AssociationsExist(d, project_id) ==
    \A pq \in d.project_quizzes :
        pq.project_id = project_id => Exists(d.quizzes, pq.quiz_id)

\* C28: after a project revert, every quiz association of the project
\* refers to a quiz that still exists, also when a quiz listed in the
\* restored snapshot was deleted between the snapshot and the revert: a
\* revert of a project to one of its snapshots is carried out, and leaves
\* only associations with existing quizzes.
C28_RevertedAssociationsExist ==
    [][ (/\ Serves
         /\ request'.op = "revert_project"
         /\ request'.status # "404")
        => /\ request'.status = "200"
           /\ AssociationsExist(db', request'.id) ]_vars


\* the users that own the entity a request names: the quiz or project
\* itself, or the quiz of the question
OwnersOf(d, req) ==
    IF req.kind = "quiz"
    THEN { q.user_id : q \in { r \in d.quizzes : r.id = req.id } }
    ELSE IF req.kind = "project"
    THEN { p.user_id : p \in { r \in d.projects : r.id = req.id } }
    ELSE { q.user_id :
              q \in { r \in d.quizzes :
                         \E i \in 1..Len(d.questions) :
                             /\ d.questions[i].id = req.id
                             /\ d.questions[i].quiz_id = r.id } }

\* C29: a user who does not own a quiz or project can neither read nor
\* change it nor see its history: every get, update, delete, regenerate,
\* revert, history-list and history-detail request by a non-owner, on the
\* quiz or project or on one of the quiz's questions, is answered 404 and
\* leaves all entities and snapshots unchanged.
C29_NonOwnerIsNotFound ==
    [][ (/\ Serves
         /\ OwnersOf(db, request') # {}
         /\ request'.user \notin OwnersOf(db, request'))
        => (request'.status = "404" /\ db' = db) ]_vars

\* the other user asked to revert a quiz that has a snapshot to revert to
C29_Witness ==
    /\ request.op = "revert_quiz" /\ request.user = 2 /\ request.status = "404"
    /\ OwnersOf(db, request) = {1}
    /\ RevertTarget(db.quiz_history, request.id, request.history_id) # << >>


----------------------------------------------------------------------------
(* Properties of get_activity_log, checked under SpecActivity *)

\* the user's complete quiz, question and project history, merged and
\* ordered newest first
CompleteHistory(tables, user_id) ==
    LET Mine(r) == r.user_id = user_id
        merged == SelectSeq(tables.quiz_history \o tables.question_history
                            \o tables.project_history, Mine)
        sorted == NewestFirst(merged)
    IN  [i \in 1..Len(sorted) |->
            [entity_type |-> sorted[i].entity_type, timestamp |-> sorted[i].timestamp]]

\* C30: get_activity_log(skip, limit) returns exactly the entries ranked
\* skip .. skip+limit-1 of the user's complete quiz, question and project
\* history merged and ordered newest-first, for every skip >= 0 and
\* limit >= 1.
C30_ActivityLogIsAPageOfTheCompleteHistory ==
    al_limit >= 1
        => LET complete == CompleteHistory(al_history, al_user)
           IN  /\ Len(al_result) =
                      IF Len(complete) <= al_skip THEN 0
                      ELSE IF Len(complete) - al_skip < al_limit
                      THEN Len(complete) - al_skip
                      ELSE al_limit
               /\ \A i \in 1..Len(al_result) : al_result[i] = complete[al_skip + i]

====
